---- MODULE Spec2Model ----
(***************************************************************************)
(* Model of the indexer job registry of IndexerManagementGrowin:           *)
(* the durable job table (app/repositories/process_repo.py), the           *)
(* in-memory handle table (app/utils/process_manager.py), the four         *)
(* executors run on the worker pool (app/api/v1/routes/indexer.py), the    *)
(* start/stop endpoints (app/api/v1/routes/processes.py), the log buffers  *)
(* (app/utils/logging_handler.py) and the Reaper                           *)
(* (app/services/cleanup_service.py).                                      *)
(*                                                                         *)
(* Threads.  The endpoints are coroutines without an await in their body,  *)
(* so they run one at a time on the event loop; the work units run on      *)
(* pool threads and the Reaper on a thread of its own, and these           *)
(* interleave with the endpoints at every access of the job table, the     *)
(* handle table and the log buffers.  A step of a pool thread is one such   *)
(* access (one committed statement, one call under a lock) together with   *)
(* the thread-local computation around it.  In the single-publication and  *)
(* full-reindex executors a request to the search engine is a step of its  *)
(* own, and so is each access of the module global es_client.  The server  *)
(* of the search engine is part of the environment (es_up).                *)
(***************************************************************************)
EXTENDS Integers, Sequences, FiniteSets, TLC

VARIABLES
    db,         \* table indexer_processes: job id -> row
    next_id,    \* AUTOINCREMENT counter of the table
    now,        \* wall clock (UTC), in hours
    es_client,  \* app.db.elasticsearch.es_client is not None
    es_up,      \* the Elasticsearch server answers the requests sent to it
    ep,         \* position of the event loop inside start_indexer_endpoint
    active,     \* keys of process_manager._active_processes
    unit,       \* per job: position and locals of its work unit
    logs,       \* logging_handler._log_buffers: job id -> sequence of entries
    reaper,     \* position and locals of run_cleanup
    visible,    \* number of rows of publicaciones with visible = 1 (the data source)
    restarts,   \* number of process restarts so far
    buffer_lock,\* logging_handler._buffer_lock: the thread holding it, or Free
    caller,     \* per thread: its position inside a call of logging_handler
    request,    \* the parameter map handed to build_es_query
    query,      \* the query build_es_query returned for it, or NoQuery
    pub,        \* the row mysql_query returned to denormalize_publication, or NoRow
    doc,        \* the document denormalize_publication built from it, or NoDoc
    poller,     \* per job: the log client (since it will send, records received, polls made)
    tz,         \* UTC offset of the local time of the process, in hours (the TZ it runs under)
    hist        \* per job: history of calls made (observation only)

vars == <<db, next_id, now, es_client, es_up, ep, active, unit, logs, reaper, visible, restarts,
         buffer_lock, caller, request, query, pub,
         doc,
         poller,
         tz,
         hist>>

----------------------------------------------------------------------------
(* Bounds of the model *)

MaxJobs == 1
MaxItems == 2
MaxTicks == 1
MaxRestarts == 1
MaxAppends == 1500
MaxLogs == 6
MaxThreads == 2
MaxPolls == 3
MaxFaults == 2

(* Program constants *)

PROCESS_RETENTION_DAYS == 30
\* SQLite's datetime('now', '-N days'): a day is 24 hours
HoursPerDay == 24
MAX_LOG_BUFFER_SIZE == 1000
MAX_WORKERS == 10
BATCH_SIZE == 1000
SCRAPER_PROGRESS_EVERY == 10
SYNC_PROGRESS_EVERY == 50
CHUNK_SIZE == 500

Jobs == 1..MaxJobs

NULL == "NULL"
NULLT == -1

LICITACION == "index-licitacion"
SCRAPER == "index-scraper-publications"
SYNC == "sync-since"
BULK == "index-bulk"
valid_types == {LICITACION, SCRAPER, BULK, SYNC}

RUNNING == "running"
COMPLETED == "completed"
FAILED == "failed"
STOPPED == "stopped"
Terminal == {COMPLETED, FAILED, STOPPED}

Min(a, b) == IF a < b THEN a ELSE b

----------------------------------------------------------------------------
(* Durable job store: app/repositories/process_repo.py.  Each operator is  *)
(* one SQL statement and yields the table after it.                        *)

\* The progress snapshots the executors write; a key the executor leaves out is -1
Progress(message, current, total, indexed, failed) ==
    [message |-> message, current |-> current, total |-> total,
     indexed |-> indexed, failed |-> failed]

\* A progress column that is NULL
NoProgress == Progress(NULL, -1, -1, -1, -1)

\* INSERT INTO indexer_processes (type, status, params, user_id)
create_process(d, id, type, params, user_id, t) ==
    d @@ (id :> [type |-> type, status |-> RUNNING, params |-> params,
                 user_id |-> user_id, started_at |-> t, completed_at |-> NULLT,
                 progress |-> NoProgress, error_message |-> NULL])

\* SELECT * FROM indexer_processes WHERE id = ? (the rows found: one or none)
get_process(d, id) == IF id \in DOMAIN d THEN <<d[id]>> ELSE << >>

\* SELECT status FROM indexer_processes WHERE id = ?
get_process_status(d, id) == IF id \in DOMAIN d THEN d[id].status ELSE NULL

\* The offsets the process may run under: America/Argentina/Buenos_Aires, UTC,
\* Europe/Madrid in winter
UtcOffsets == {-3, 0, 1}

\* datetime.now(): the naive local time at the UTC instant t.  CURRENT_TIMESTAMP
\* and datetime('now') of SQLite are t itself
local_now(t) == t + tz

\* Variant: the UPDATE leaves completed_at as it was
update_process_status_no_stamp(d, id, status, error_message, t) ==
    IF id \in DOMAIN d
    THEN [d EXCEPT ![id].status = status, ![id].error_message = error_message]
    ELSE d

\* UPDATE ... SET status = ?, completed_at = ?, error_message = ? WHERE id = ?
\* with completed_at = datetime.now().isoformat(), the local time, for a
\* terminal status and None otherwise
update_process_status_repo(d, id, status, error_message, t) ==
    IF id \in DOMAIN d
    THEN [d EXCEPT ![id].status = status,
                   ![id].completed_at = IF status \in Terminal THEN local_now(t) ELSE NULLT,
                   ![id].error_message = error_message]
    ELSE d

\* UPDATE ... SET progress = ? WHERE id = ?
update_process_progress(d, id, progress) ==
    IF id \in DOMAIN d THEN [d EXCEPT ![id].progress = progress] ELSE d

\* UPDATE ... SET status = 'stopped', completed_at = CURRENT_TIMESTAMP WHERE id = ?
mark_process_stopped(d, id, t) ==
    IF id \in DOMAIN d
    THEN [d EXCEPT ![id].status = STOPPED, ![id].completed_at = t]
    ELSE d

\* Variant: the forced mark leaves completed_at as it was
force_mark_stopped_no_time(d, id, t) ==
    IF id \in DOMAIN d /\ d[id].status = RUNNING
    THEN [d EXCEPT ![id].status = STOPPED]
    ELSE d

\* UPDATE ... SET status = 'stopped', completed_at = ... WHERE id = ? AND status = 'running'
force_mark_stopped(d, id, t) ==
    IF id \in DOMAIN d /\ d[id].status = RUNNING
    THEN [d EXCEPT ![id].status = STOPPED, ![id].completed_at = t]
    ELSE d

\* Variant: the DELETE has no condition on the status
old_processes_any_status(d, retention_days, t) ==
    {id \in DOMAIN d :
        \/ d[id].completed_at # NULLT /\ d[id].completed_at < t - retention_days * HoursPerDay
        \/ d[id].completed_at = NULLT /\ d[id].started_at < t - retention_days * HoursPerDay}

\* The rows DELETE FROM indexer_processes WHERE status IN (...) AND (...) removes
old_processes(d, retention_days, t) ==
    {id \in DOMAIN d :
        /\ d[id].status \in Terminal
        /\ \/ d[id].completed_at # NULLT /\ d[id].completed_at < t - retention_days * HoursPerDay
           \/ d[id].completed_at = NULLT /\ d[id].started_at < t - retention_days * HoursPerDay}

delete_old_processes(d, retention_days, t) ==
    [id \in DOMAIN d \ old_processes(d, retention_days, t) |-> d[id]]

\* SELECT id FROM indexer_processes
get_all_process_ids(d) == DOMAIN d

\* is_process_stopped: status == 'stopped' if status else True
is_process_stopped(d, id) ==
    IF get_process_status(d, id) = NULL THEN TRUE
    ELSE get_process_status(d, id) = STOPPED

----------------------------------------------------------------------------
(* Log buffers: app/utils/logging_handler.py *)

LogEntry(t, level, message) == [timestamp |-> t, level |-> level, message |-> message]

\* Variant: a deque without maxlen
deque_append_unbounded(q, e) == Append(q, e)

\* deque(maxlen=MAX_LOG_BUFFER_SIZE).append
deque_append(q, e) ==
    IF Len(q) >= MAX_LOG_BUFFER_SIZE THEN Append(Tail(q), e) ELSE Append(q, e)

\* ProcessLogHandler.__init__: a buffer is created when the job has none
handler_init(b, id) == IF id \in DOMAIN b THEN b ELSE b @@ (id :> << >>)

\* ProcessLogHandler.emit: appends, creating the buffer again when it was
\* removed; the entry carries datetime.fromtimestamp(record.created), the
\* local time
emit(b, id, t, level, message) ==
    [handler_init(b, id) EXCEPT ![id] = deque_append(@, LogEntry(local_now(t), level, message))]

remove_process_logs(b, id) == [k \in DOMAIN b \ {id} |-> b[k]]

get_all_buffer_process_ids(b) == DOMAIN b

\* The since_timestamp argument of get_process_logs, by what the function makes
\* of it: None or the empty string (no filter asked), a string that
\* datetime.fromisoformat rejects, an ISO string without offset (a naive
\* datetime), an ISO string with an offset or a trailing Z (an aware datetime)
NoSince == [kind |-> "none", t |-> NULLT]
Unparsable == [kind |-> "unparsable", t |-> NULLT]
Naive(t) == [kind |-> "naive", t |-> t]
Aware(t) == [kind |-> "aware", t |-> t]

\* log_dt > since_dt raises TypeError: the entries carry
\* datetime.fromtimestamp(record.created).isoformat(), always naive, and Python
\* refuses to order a naive datetime against an aware one
CompareRaises(since) == since.kind = "aware"

\* Variant: the filter keeps the entries at the since instant too
get_process_logs_inclusive(b, id, since) ==
    IF id \notin DOMAIN b THEN << >>
    ELSE IF since.kind \in {"none", "unparsable"} THEN b[id]
    ELSE IF CompareRaises(since) /\ Len(b[id]) > 0 THEN b[id]
    ELSE SelectSeq(b[id], LAMBDA e : e.timestamp >= since.t)

\* get_process_logs: the copy of the buffer, filtered when since parses; any
\* exception inside the filter (the parse, the first comparison) is caught
\* and the whole copy returned
get_process_logs(b, id, since) ==
    IF id \notin DOMAIN b THEN << >>
    ELSE IF since.kind \in {"none", "unparsable"} THEN b[id]
    ELSE IF CompareRaises(since) /\ Len(b[id]) > 0 THEN b[id]
    ELSE SelectSeq(b[id], LAMBDA e : e.timestamp > since.t)

----------------------------------------------------------------------------
(* State of one work unit (the closure run_indexer of start_indexer_endpoint *)
(* and the executor it calls) and of the two other threads.                  *)

\* pc: idle (nothing submitted), queued (Future pending), cancelled, lost (the
\* process restarted under it), done (the Future finished), or a position
\* inside run_indexer: the next access the pool thread will make.
UnitInit ==
    [pc |-> "idle", type |-> NULL, total |-> 0, i |-> 0, indexed |-> 0, failed |-> 0,
     offset |-> 0, plen |-> 0, k |-> 0, docs |-> 0, chunk |-> 0, st |-> NULL,
     msg |-> NULL]

HistInit ==
    [created |-> FALSE, begun |-> FALSE, listings |-> 0, denorms |-> 0, absent |-> 0,
     writes |-> 0, singles |-> 0, docPages |-> 0,
     bulks |-> 0, requests |-> 0, raised |-> 0, stopReq |-> FALSE, stopPre |-> FALSE,
     stopTrue |-> FALSE, stopLoop |-> FALSE, ret |-> "none", srcDown |-> FALSE,
     pageDown |-> FALSE, esDown |-> FALSE, wrote |-> FALSE, late |-> 0, both |-> 0,
     ended |-> NULLT]

EpIdle == [at |-> "idle", id |-> 0, type |-> NULL]
ReaperIdle == [at |-> "idle", existing |-> {}, deleted |-> {}]

\* The Future of job j is running: a pool thread has taken it and has not
\* returned from run_indexer
Executing(j) == unit[j].pc \notin {"idle", "queued", "cancelled", "lost", "done"}

\* A fresh deployment: empty table, no client, nothing in memory
----------------------------------------------------------------------------
(* The query builder: app/utils/query_builder.py.  A parameter map is a     *)
(* function from the names of the parameters given to their values; the     *)
(* request model (app/models/search.py) makes every value a string, but     *)
(* user_tag_ids, a list of integers, and leaves out what was not given.     *)

\* params.get(k) is truthy, for a string parameter
Given(p, k) == k \in DOMAIN p /\ p[k] # ""

\* str.strip on the texts the model sends
strip(v) ==
    CASE v = "  " -> ""
      [] v = " obra " -> "obra"
      [] OTHER -> v

\* int(v): the strings Python reads as an integer, with the integer read;
\* on every other string int raises ValueError
IntLiterals == ("7" :> 7) @@ (" 7 " :> 7) @@ ("007" :> 7) @@ ("-3" :> -3)
int_parses(v) == v \in DOMAIN IntLiterals
int(v) == IntLiterals[v]

\* datetime.strptime(v, '%d/%m/%Y').strftime('%Y-%m-%d'): the strings that
\* parse, with their rewriting; on every other string strptime raises ValueError
DmyDates == ("01/02/2024" :> "2024-02-01") @@ ("1/2/2024" :> "2024-02-01")
to_ymd(v) == IF v \in DOMAIN DmyDates THEN DmyDates[v] ELSE v

Term(field, value) == [op |-> "term", field |-> field, value |-> value]
Terms(field, values) == [op |-> "terms", field |-> field, value |-> values]
Wildcard(field, text) == [op |-> "wildcard", field |-> field, value |-> "*" \o text \o "*"]
Range(field, limits) == [op |-> "range", field |-> field, value |-> limits]

\* lines 26-41: the general search
should_clauses(p) ==
    IF Given(p, "search") /\ strip(p["search"]) # ""
    THEN <<Wildcard("objeto", strip(p["search"])), Wildcard("agencia", strip(p["search"])),
           Wildcard("oficina", strip(p["search"])), Wildcard("referencia", strip(p["search"]))>>
    ELSE << >>

\* lines 43-55: the objeto and agencia filters
must_clauses(p) ==
    (IF Given(p, "objeto") /\ strip(p["objeto"]) # ""
     THEN <<Wildcard("objeto", strip(p["objeto"]))>> ELSE << >>)
    \o (IF Given(p, "agencia") /\ strip(p["agencia"]) # ""
        THEN <<Wildcard("agencia", strip(p["agencia"]))>> ELSE << >>)

\* Variant: the country is always matched by name
pais_clauses_by_name(p) ==
    IF Given(p, "pais") /\ p["pais"] # "all"
    THEN <<Term("pais_nombre", p["pais"])>>
    ELSE << >>

\* lines 57-65: the country filter
pais_clauses(p) ==
    IF Given(p, "pais") /\ p["pais"] # "all"
    THEN IF int_parses(p["pais"])
         THEN <<Term("pais_id", int(p["pais"]))>>
         ELSE <<Term("pais_nombre", p["pais"])>>
    ELSE << >>

\* lines 67-74: the rubro filter; a value that is no integer is passed over
rubro_clauses(p) ==
    IF Given(p, "rubro") /\ p["rubro"] # "all" /\ int_parses(p["rubro"])
    THEN <<Term("tag_ids", int(p["rubro"]))>>
    ELSE << >>

\* lines 76-81: the user's tags; filter_mode is 'all' when not given
user_tag_clauses(p) ==
    IF /\ "user_tag_ids" \in DOMAIN p
       /\ Len(p["user_tag_ids"]) > 0
       /\ "filter_mode" \in DOMAIN p
       /\ p["filter_mode"] = "user_tags"
    THEN <<Terms("tag_ids", p["user_tag_ids"])>>
    ELSE << >>

\* lines 83-105: the range of the opening date
date_clauses(p) ==
    IF Given(p, "apertura_fr") \/ Given(p, "apertura_to")
    THEN <<Range("apertura",
                 (IF Given(p, "apertura_fr")
                  THEN "gte" :> (to_ymd(p["apertura_fr"]) \o " 00:00:00") ELSE << >>)
                 @@ (IF Given(p, "apertura_to")
                     THEN "lte" :> (to_ymd(p["apertura_to"]) \o " 23:59:59") ELSE << >>))>>
    ELSE << >>

\* lines 107-116: only publications in force
vigente_clauses(p) ==
    IF \/ ("incluirVencidos" \in DOMAIN p /\ p["incluirVencidos"] = "0")
       \/ ("soloVigentes" \in DOMAIN p /\ p["soloVigentes"] = "1")
    THEN <<Term("vigente", TRUE)>>
    ELSE << >>

\* Variant: the visibility clause is not appended
visible_clauses_none(p) == << >>

\* lines 118-119: the visibility clause, whatever the parameters
visible_clauses(p) == <<Term("visible", TRUE)>>

filter_clauses(p) ==
    pais_clauses(p) \o rubro_clauses(p) \o user_tag_clauses(p) \o date_clauses(p)
        \o vigente_clauses(p) \o visible_clauses(p)

\* lines 121-132: the keys of the bool query are those of the non-empty lists
bool_query(p) ==
    (IF must_clauses(p) # << >> THEN "must" :> must_clauses(p) ELSE << >>)
    @@ (IF filter_clauses(p) # << >> THEN "filter" :> filter_clauses(p) ELSE << >>)
    @@ (IF should_clauses(p) # << >>
        THEN ("should" :> should_clauses(p)) @@ ("minimum_should_match" :> 1)
        ELSE << >>)

\* lines 134-138: match_all when the bool query has no key
build_es_query(p) ==
    IF DOMAIN bool_query(p) # {}
    THEN [bool |-> bool_query(p)]
    ELSE [match_all |-> << >>]

----------------------------------------------------------------------------
(* The denormalizer: denormalize.py.  Python values are tagged with their   *)
(* type; a str is the sequence of its characters, a float is held in        *)
(* hundredths (the amounts of the model have at most two decimals), a list  *)
(* is the sequence of its items.                                            *)

PyNone == [t |-> "None", s |-> << >>, n |-> 0, items |-> << >>]
PyStr(chars) == [t |-> "str", s |-> chars, n |-> 0, items |-> << >>]
PyInt(i) == [t |-> "int", s |-> << >>, n |-> i, items |-> << >>]
PyFloat(hundredths) == [t |-> "float", s |-> << >>, n |-> hundredths, items |-> << >>]
PyBool(b) == [t |-> "bool", s |-> << >>, n |-> IF b THEN 1 ELSE 0, items |-> << >>]
PyList(items) == [t |-> "list", s |-> << >>, n |-> 0, items |-> items]

\* bool(v)
Truthy(v) ==
    CASE v.t = "None" -> FALSE
      [] v.t = "str" -> v.s # << >>
      [] v.t = "list" -> v.items # << >>
      [] OTHER -> v.n # 0

\* No row was read, no document was built
NoRow == << >>
NoDoc == << >>

\* pub.get(k)
Col(row, k) == IF k \in DOMAIN row THEN row[k] ELSE PyNone

Digits == {"0", "1", "2", "3", "4", "5", "6", "7", "8", "9"}
DigitValue ==
    ("0" :> 0) @@ ("1" :> 1) @@ ("2" :> 2) @@ ("3" :> 3) @@ ("4" :> 4)
    @@ ("5" :> 5) @@ ("6" :> 6) @@ ("7" :> 7) @@ ("8" :> 8) @@ ("9" :> 9)

\* str.strip(): the blanks at both ends go
RECURSIVE lstrip(_)
lstrip(chars) ==
    IF chars # << >> /\ Head(chars) = " " THEN lstrip(Tail(chars)) ELSE chars
RECURSIVE rstrip(_)
rstrip(chars) ==
    IF chars # << >> /\ chars[Len(chars)] = " "
    THEN rstrip(SubSeq(chars, 1, Len(chars) - 1))
    ELSE chars
str_strip(chars) == rstrip(lstrip(chars))

\* str.replace(old, new) for a one-character old and a new of at most one character
str_remove(chars, old) == SelectSeq(chars, LAMBDA c : c # old)
str_replace(chars, old, new) == [k \in 1..Len(chars) |-> IF chars[k] = old THEN new ELSE chars[k]]

\* The digits of chars read as a decimal number
RECURSIVE digits_value(_)
digits_value(chars) ==
    IF chars = << >> THEN 0
    ELSE 10 * digits_value(SubSeq(chars, 1, Len(chars) - 1)) + DigitValue[chars[Len(chars)]]

\* float(chars) on the texts of the model: an optional sign, digits with at
\* most one point among them and at least one digit; on anything else float
\* raises ValueError.  The value is in hundredths.
Unsigned(chars) ==
    IF chars # << >> /\ Head(chars) \in {"-", "+"} THEN Tail(chars) ELSE chars
Points(chars) == {k \in 1..Len(chars) : chars[k] = "."}
float_parses(chars) ==
    LET u == Unsigned(chars)
    IN  /\ \A k \in 1..Len(u) : u[k] \in Digits \cup {"."}
        /\ Cardinality(Points(u)) <= 1
        /\ \E k \in 1..Len(u) : u[k] \in Digits
float_of(chars) ==
    LET u == Unsigned(chars)
        dot == IF Points(u) = {} THEN Len(u) + 1 ELSE CHOOSE k \in Points(u) : TRUE
        whole == SubSeq(u, 1, dot - 1)
        frac == SubSeq(u, dot + 1, Len(u))
        cents == IF Len(frac) = 0 THEN 0
                 ELSE IF Len(frac) = 1 THEN 10 * digits_value(frac)
                 ELSE digits_value(SubSeq(frac, 1, 2))
        magnitude == 100 * digits_value(whole) + cents
    IN  IF chars # << >> /\ Head(chars) = "-" THEN 0 - magnitude ELSE magnitude

\* parse_monto, lines 95-120
parse_monto(monto_value) ==
    IF ~Truthy(monto_value) THEN PyNone
    ELSE IF monto_value.t = "int" THEN PyFloat(100 * monto_value.n)
    ELSE IF monto_value.t = "float" THEN PyFloat(monto_value.n)
    ELSE LET monto_str == str_strip(monto_value.s)
             cleaned == str_replace(
                            str_remove(str_remove(str_remove(monto_str, "$"), " "), "."),
                            ",", ".")
         IN  IF monto_str = << >> \/ monto_str = <<"0">> THEN PyNone
             ELSE IF float_parses(cleaned) THEN PyFloat(float_of(cleaned))
             ELSE PyNone

\* str.split(sep)
RECURSIVE split(_, _)
split(chars, sep) ==
    LET at == {k \in 1..Len(chars) : chars[k] = sep}
    IN  IF at = {} THEN <<chars>>
        ELSE LET k == CHOOSE i \in at : \A m \in at : i <= m
             IN  <<SubSeq(chars, 1, k - 1)>> \o split(SubSeq(chars, k + 1, Len(chars)), sep)

\* str.isdigit()
isdigit(chars) == chars # << >> /\ \A k \in 1..Len(chars) : chars[k] \in Digits

\* lines 61-64 and 79-82: [int(t) for t in str(raw).split(',') if t.strip().isdigit()]
id_list(raw) ==
    IF ~Truthy(raw) THEN PyList(<< >>)
    ELSE LET parts == SelectSeq(split(raw.s, ","), LAMBDA t : isdigit(str_strip(t)))
         IN  PyList([k \in 1..Len(parts) |-> digits_value(str_strip(parts[k]))])

\* lines 66-77: the tags, from 'id:descripcion' joined by commas
tag_list(raw) ==
    IF ~Truthy(raw) THEN PyList(<< >>)
    ELSE LET parts == SelectSeq(split(raw.s, ","),
                                LAMBDA t : /\ \E k \in 1..Len(t) : t[k] = ":"
                                           /\ isdigit(split(t, ":")[1]))
         IN  PyList([k \in 1..Len(parts) |->
                        LET colon == CHOOSE i \in 1..Len(parts[k]) :
                                        /\ parts[k][i] = ":"
                                        /\ \A m \in 1..(i - 1) : parts[k][m] # ":"
                        IN  [id |-> digits_value(SubSeq(parts[k], 1, colon - 1)),
                             descripcion |-> SubSeq(parts[k], colon + 1, Len(parts[k]))]])

\* validate_date, lines 85-92: the zero date of MySQL and the text 'None' are no date
ZeroDate == <<"0", "0", "0", "0", "-", "0", "0", "-", "0", "0">>
validate_date(date_value) ==
    IF ~Truthy(date_value) THEN PyNone
    ELSE IF \/ SubSeq(date_value.s, 1, Min(Len(date_value.s), Len(ZeroDate))) = ZeroDate
            \/ date_value.s = <<"N", "o", "n", "e">>
         THEN PyNone
         ELSE date_value

\* The columns copied as they are, and the date columns
PlainColumns ==
    {"id", "scraper", "idexterno", "referencia", "objeto", "agencia", "oficina", "link",
     "pais", "rubro", "subrubro", "tipo", "tipo_id", "tipo_cliente_id", "contacto",
     "observaciones", "categoria", "attachs", "divisaSimboloISO", "pais_nombre", "pais_id"}
DateColumns == {"publicado", "actualizado", "apertura", "cierre", "cargado", "editado"}

\* lines 126-169: the document with every key
full_doc(row) ==
    [k \in PlainColumns |-> Col(row, k)]
    @@ [k \in DateColumns |-> validate_date(Col(row, k))]
    @@ ("visible" :> (IF Col(row, "visible") # PyNone
                      THEN PyBool(Col(row, "visible").n # 0) ELSE PyNone))
    @@ ("monto" :> parse_monto(Col(row, "monto")))
    @@ ("tag_ids" :> id_list(Col(row, "tag_ids_raw")))
    @@ ("tags" :> tag_list(Col(row, "tags_raw")))
    @@ ("mercado_ids" :> id_list(Col(row, "mercado_ids_raw")))
    @@ ("tipo_licit_ids" :> [esAR |-> Col(row, "tipo_licit_id_esAR"),
                             ptBR |-> Col(row, "tipo_licit_id_ptBR"),
                             enUS |-> Col(row, "tipo_licit_id_enUS")])
    @@ ("tasaCambioUSD" :> (LET v == Col(row, "tasaCambioUSD")
                            IN  IF ~Truthy(v) THEN PyFloat(0)
                                ELSE IF v.t = "float" THEN PyFloat(v.n)
                                ELSE PyFloat(100 * v.n)))
    @@ ("vigente" :> PyBool(Truthy(Col(row, "vigente"))))

\* line 172: {k: v for k, v in doc.items() if v is not None}
drop_none(d) == [k \in {c \in DOMAIN d : d[c] # PyNone} |-> d[k]]

\* denormalize_publication for a row that was found
denormalize_publication(row) == drop_none(full_doc(row))

----------------------------------------------------------------------------
\* The threads that call into logging_handler, _buffer_lock unlocked, and a
\* thread outside any call
Threads == 1..MaxThreads
Free == 0
CallerIdle == [pc |-> "idle", op |-> "none", id |-> 0]
\* A log client that has not polled yet: its first request carries no since
PollerInit == [since |-> NoSince, seen |-> << >>, polls |-> 0]

\* No query has been built
NoQuery == [none |-> TRUE]

Fresh ==
    /\ db = << >>
    /\ next_id = 1
    /\ now = 0
    /\ es_client = FALSE
    /\ es_up = TRUE
    /\ ep = EpIdle
    /\ active = {}
    /\ unit = [j \in Jobs |-> UnitInit]
    /\ logs = << >>
    /\ reaper = ReaperIdle
    /\ restarts = 0
    /\ buffer_lock = Free
    /\ caller = [t \in Threads |-> CallerIdle]
    /\ request = << >>
    /\ query = NoQuery
    /\ pub = NoRow
    /\ doc = NoDoc
    /\ poller = [j \in Jobs |-> PollerInit]
    /\ tz \in UtcOffsets
    /\ hist = [j \in Jobs |-> HistInit]

\* The process runs under UTC; the data source holds MaxItems rows, or as many
\* as one period of the progress write of the incremental-by-source recipe
SmallSources == {MaxItems, SCRAPER_PROGRESS_EVERY}
Init == Fresh /\ visible \in SmallSources /\ tz = 0

----------------------------------------------------------------------------
(* start_indexer_endpoint: app/api/v1/routes/processes.py *)

\* The parameters the endpoint requires for each type
ParamsOf(type) ==
    CASE type = LICITACION -> "publicacion_id"
      [] type = SCRAPER -> "scraper_id,since"
      [] type = SYNC -> "since"
      [] OTHER -> "none"

\* es_client_init(): what it can return.  The client when the ping is answered
\* in its 5 seconds, None (FALSE) when the ping fails or raises; a server that
\* does not answer gives None only
es_client_init == IF es_up THEN BOOLEAN ELSE {FALSE}

\* What a write sent to the server (es_client.index, one bulk request) can do:
\* succeed or raise; it raises when the server does not answer
WriteResults == IF es_up THEN BOOLEAN ELSE {FALSE}

\* get_es_client() line 132, on the event loop: the global is read and found
\* None, and the endpoint enters es_client_init(), which waits for the server
StartLookup ==
    /\ ep.at = "idle"
    /\ ~es_client
    /\ ep' = [EpIdle EXCEPT !.at = "init"]
    /\ UNCHANGED <<es_up, tz, poller, doc, pub, request, query, db, next_id, now, es_client, active, unit, logs, reaper, visible, buffer_lock, caller, restarts, hist>>

\* get_es_client() line 133 and processes.py lines 68-69: the global is assigned
\* what es_client_init() returned, whatever another thread stored in it
\* meanwhile; with None the request is answered 503
StartInit ==
    /\ ep.at = "init"
    /\ \E client \in es_client_init :
        /\ es_client' = client
        /\ ep' = IF client THEN [EpIdle EXCEPT !.at = "client"] ELSE EpIdle
    /\ UNCHANGED <<es_up, tz, poller, doc, pub, request, query, db, next_id, now, active, unit, logs, reaper, visible, buffer_lock, caller, restarts, hist>>

\* The endpoint holds a client: the one es_client_init() just returned to it, or
\* the cached one, which get_es_client() returns without a call of the server
StartHasClient == ep.at = "client" \/ (ep.at = "idle" /\ es_client)

\* Variant: the endpoint goes on to submit without having inserted the row
StartCreate_no_row(type) ==
    /\ StartHasClient
    /\ next_id \in Jobs
    /\ type \in valid_types
    /\ db' = db
    /\ next_id' = next_id + 1
    /\ ep' = [at |-> "created", id |-> next_id, type |-> type]
    /\ hist' = [hist EXCEPT ![next_id].created = TRUE]
    /\ UNCHANGED <<es_up, tz, poller, doc, pub, request, query, now, es_client, active, unit, logs, reaper, visible, buffer_lock, caller, restarts>>

\* Lines 67-92: with a client in hand the request is validated and
\* start_indexer_service commits the row.
StartCreate(type) ==
    /\ StartHasClient
    /\ next_id \in Jobs
    /\ type \in valid_types
    /\ db' = create_process(db, next_id, type, ParamsOf(type), 1, now)
    /\ next_id' = next_id + 1
    /\ ep' = [at |-> "created", id |-> next_id, type |-> type]
    /\ hist' = [hist EXCEPT ![next_id].created = TRUE]
    /\ UNCHANGED <<es_up, tz, poller, doc, pub, request, query, now, es_client, active, unit, logs, reaper, visible, buffer_lock, caller, restarts>>

\* Lines 71-88: a request that is turned down with 400 (a type outside
\* valid_types, a required parameter missing) after get_es_client() gave the
\* client: nothing is written
StartRejected ==
    /\ StartHasClient
    /\ ep' = EpIdle
    /\ UNCHANGED <<es_up, tz, poller, doc, pub, request, query, db, next_id, now, es_client, active, unit, logs, reaper, visible, buffer_lock, caller, restarts, hist>>

\* Line 110: future = _executor.submit(run_indexer)
StartSubmit ==
    /\ ep.at = "created"
    /\ unit' = [unit EXCEPT ![ep.id].pc = "queued", ![ep.id].type = ep.type]
    /\ ep' = [ep EXCEPT !.at = "submitted"]
    /\ UNCHANGED <<es_up, tz, poller, doc, pub, request, query, db, next_id, now, es_client, active, logs, reaper, visible, buffer_lock, caller, restarts, hist>>

\* register_active_process: _active_processes[process_id] = future
register_active_process(a, id) == a \cup {id}

\* unregister_active_process: _active_processes.pop(process_id, None)
unregister_active_process(a, id) == a \ {id}

\* Line 111: register_process(process_id, future); the response is then built
StartRegister ==
    /\ ep.at = "submitted"
    /\ active' = register_active_process(active, ep.id)
    /\ ep' = EpIdle
    /\ UNCHANGED <<es_up, tz, poller, doc, pub, request, query, db, next_id, now, es_client, unit, logs, reaper, visible, buffer_lock, caller, restarts, hist>>

----------------------------------------------------------------------------
(* stop_indexer_process: app/utils/process_manager.py, under _process_lock *)

\* Variant: cancel() never succeeds
FutureCancel_never(j) == FALSE

\* Future.cancel(): succeeds only while the Future is pending, that is until a
\* pool thread takes it
FutureCancel(j) == unit[j].pc = "queued"

\* The positions inside the for / while loop of a batch recipe
LoopPcs == {"loop", "item", "iprog", "iprog_log", "bloop", "page", "pdenorm",
            "pdenorm_log", "bulk", "bulk_log", "bprog", "bprog_log"}

\* The value stop_indexer_process returns
StopReturns(j) ==
    IF j \notin active
    THEN get_process_status(db, j) = RUNNING
    ELSE TRUE

\* Variant: a started job is only flagged in memory, its row is not written
StopDb_flag_only(j) ==
    IF j \notin active
    THEN (IF get_process_status(db, j) = RUNNING THEN force_mark_stopped(db, j, now) ELSE db)
    ELSE IF FutureCancel(j)
         THEN mark_process_stopped(db, j, now)
         ELSE db

\* The table after stop_indexer_process
StopDb(j) ==
    IF j \notin active
    THEN (IF get_process_status(db, j) = RUNNING THEN force_mark_stopped(db, j, now) ELSE db)
    ELSE IF FutureCancel(j)
         THEN mark_process_stopped(db, j, now)
         ELSE update_process_status_repo(db, j, STOPPED, NULL, now)

\* The handle table after stop_indexer_process
StopActive(j) ==
    IF j \in active /\ FutureCancel(j) THEN active \ {j} ELSE active

stop_indexer_process(j) ==
    /\ ep.at = "idle"
    /\ db' = StopDb(j)
    /\ active' = StopActive(j)
    /\ unit' = IF j \in active /\ FutureCancel(j)
               THEN [unit EXCEPT ![j].pc = "cancelled"]
               ELSE unit
    /\ hist' = [hist EXCEPT ![j].stopReq = @ \/ hist[j].created,
                            ![j].ended = IF StopDb(j) # db THEN now ELSE @,
                            ![j].stopTrue = @ \/ StopReturns(j),
                            ![j].ret = IF StopReturns(j) THEN "True" ELSE "False",
                            ![j].stopPre = @ \/ (~hist[j].begun
                                                    /\ get_process_status(db, j) = RUNNING),
                            ![j].stopLoop = @ \/ (j \in active /\ j \in DOMAIN db
                                                    /\ unit[j].pc \in LoopPcs)]
    /\ UNCHANGED <<es_up, tz, poller, doc, pub, request, query, next_id, now, es_client, ep, logs, reaper, visible, buffer_lock, caller, restarts>>

----------------------------------------------------------------------------
(* The work units: app/api/v1/routes/indexer.py.  process_id is always set  *)
(* for a unit started by start_indexer_endpoint.                            *)

Batch(type) == type \in {SCRAPER, SYNC}

\* Which executor logs its start and its first progress line
LogsStart(type) == type \in {LICITACION, SCRAPER}

\* A free pool thread takes the Future and enters run_indexer: the Future is
\* running from here on, before the executor has made any access
Take(j) ==
    /\ unit[j].pc = "queued"
    /\ Cardinality({k \in Jobs : Executing(k)}) < MAX_WORKERS
    /\ unit' = [unit EXCEPT ![j].pc = "handler"]
    /\ hist' = [hist EXCEPT ![j].begun = TRUE]
    /\ UNCHANGED <<es_up, tz, poller, doc, pub, request, query, db, next_id, now, es_client, ep, active, logs, reaper, visible, buffer_lock, caller, restarts>>

\* ProcessLogHandler(process_id): the buffer of the job is created
Begin(j) ==
    /\ unit[j].pc = "handler"
    /\ logs' = handler_init(logs, j)
    /\ unit' = [unit EXCEPT ![j].pc = IF LogsStart(unit[j].type) THEN "started" ELSE "starting"]
    /\ UNCHANGED <<es_up, tz, poller, doc, pub, request, query, db, next_id, now, es_client, ep, active, reaper, visible, buffer_lock, caller, restarts, hist>>

\* process_logger.info("Process N started: ..."), the first line of the
\* single-item and the incremental-by-source recipes
LogStarted(j) ==
    /\ unit[j].pc = "started"
    /\ logs' = emit(logs, j, now, "INFO", "started")
    /\ unit' = [unit EXCEPT ![j].pc = "starting"]
    /\ UNCHANGED <<es_up, tz, poller, doc, pub, request, query, db, next_id, now, es_client, ep, active, reaper, visible, buffer_lock, caller, restarts, hist>>

\* if not es_client: process_logger.warning(error_msg) ...
AfterClient(client) == IF client THEN "check0" ELSE "noclient"

\* update_process_progress('Starting...')
WriteStarting(j) ==
    /\ unit[j].pc = "starting"
    /\ db' = update_process_progress(db, j,
                Progress("Starting", 0, IF unit[j].type = LICITACION THEN 1 ELSE 0, -1, -1))
    /\ unit' = [unit EXCEPT ![j].pc = IF LogsStart(unit[j].type) THEN "starting_log"
                                      ELSE "client"]
    /\ UNCHANGED <<es_up, tz, poller, doc, pub, request, query, next_id, now, es_client, ep, active, logs, reaper, visible, buffer_lock, caller, restarts, hist>>

\* process_logger.info("Starting ..."), the line after the first progress write
LogStarting(j) ==
    /\ unit[j].pc = "starting_log"
    /\ logs' = emit(logs, j, now, "INFO", "Starting")
    /\ unit' = [unit EXCEPT ![j].pc = "client"]
    /\ UNCHANGED <<es_up, tz, poller, doc, pub, request, query, db, next_id, now, es_client, ep, active, reaper, visible, buffer_lock, caller, restarts, hist>>

\* get_es_client() on the pool thread, one access of the global in a step.
\* At "client" (line 132) the global is read: the cached client is returned
\* as it is, with no call of the server, or the thread enters
\* es_client_init().  At "client_init" (line 133) the global is assigned what
\* es_client_init() returned, None included, whatever it holds by then.  At
\* "noclient", after a call that gave none: process_logger.warning(error_msg),
\* before update_process_status('failed', error_msg).
\* The history records whether the search engine was unavailable to the unit
\* when it started: it got no client, or the client it got is one whose
\* server does not answer.
GetClient(j) ==
    /\ unit[j].pc \in {"client", "client_init", "noclient"}
    /\ CASE unit[j].pc = "client" ->
               /\ unit' = [unit EXCEPT ![j].pc = IF es_client THEN AfterClient(TRUE)
                                                 ELSE "client_init"]
               /\ hist' = [hist EXCEPT ![j].esDown = es_client /\ ~es_up]
               /\ UNCHANGED <<es_client, logs>>
         [] unit[j].pc = "client_init" ->
               \E client \in es_client_init :
                   /\ es_client' = client
                   /\ logs' = logs
                   /\ IF client
                      THEN /\ unit' = [unit EXCEPT ![j].pc = AfterClient(client)]
                           /\ hist' = hist
                      ELSE /\ unit' = [unit EXCEPT ![j].pc = AfterClient(client),
                                                   ![j].st = FAILED,
                                                   ![j].msg = "Elasticsearch not available"]
                           /\ hist' = [hist EXCEPT ![j].esDown = TRUE]
         [] OTHER ->
               /\ logs' = emit(logs, j, now, "WARNING", "Elasticsearch not available")
               /\ unit' = [unit EXCEPT ![j].pc = "status"]
               /\ UNCHANGED <<es_client, hist>>
    /\ UNCHANGED <<es_up, tz, poller, doc, pub, request, query, db, next_id, now, ep, active, reaper, visible, buffer_lock, caller, restarts>>

\* The position after a stop check that found the job not stopped
AfterCheck(pc, type) ==
    CASE pc = "check0" /\ type = LICITACION -> "denorm"
      [] pc = "check0" /\ Batch(type) -> "fetch"
      [] pc = "check0" /\ type = BULK -> "bstart"
      [] pc = "check1" -> "index"
      [] pc = "loop" -> "item"
      [] OTHER -> "page"

\* if process_id and is_process_stopped(process_id): log and return
CheckStopped(j) ==
    /\ unit[j].pc \in {"check0", "check1", "loop", "bloop"}
    /\ IF is_process_stopped(db, j)
       THEN /\ unit' = [unit EXCEPT ![j].pc = "done"]
            /\ logs' = emit(logs, j, now, "INFO", "Process was stopped")
       ELSE /\ unit' = [unit EXCEPT ![j].pc = AfterCheck(unit[j].pc, unit[j].type)]
            /\ logs' = logs
    /\ UNCHANGED <<es_up, tz, poller, doc, pub, request, query, db, next_id, now, es_client, ep, active, reaper, visible, buffer_lock, caller, restarts, hist>>

\* What denormalize_publication(id) does: a document, None (no row), or it raises
DenormResults == {"doc", "none", "raise"}

\* _index_publication_sync line 75: progress 'Denormalizing publication...'
WriteDenormalizing(j) ==
    /\ unit[j].pc = "denorm"
    /\ db' = update_process_progress(db, j, Progress("Denormalizing", 1, 2, -1, -1))
    /\ unit' = [unit EXCEPT ![j].pc = "denorm_log"]
    /\ UNCHANGED <<es_up, tz, poller, doc, pub, request, query, next_id, now, es_client, ep, active, logs, reaper, visible, buffer_lock, caller, restarts, hist>>

\* _index_publication_sync line 76: process_logger.info("Denormalizing publication...")
LogDenormalizing(j) ==
    /\ unit[j].pc = "denorm_log"
    /\ logs' = emit(logs, j, now, "INFO", "Denormalizing")
    /\ unit' = [unit EXCEPT ![j].pc = "denorm_call"]
    /\ UNCHANGED <<es_up, tz, poller, doc, pub, request, query, db, next_id, now, es_client, ep, active, reaper, visible, buffer_lock, caller, restarts, hist>>

\* _index_publication_sync lines 78-84 and 101-105: denormalize_publication (a
\* query of the source) and what the executor does with its outcome
Denormalize(j) ==
    /\ unit[j].pc = "denorm_call"
    /\ \E r \in DenormResults :
        /\ hist' = [hist EXCEPT ![j].denorms = @ + 1,
                                ![j].absent = IF r = "none" THEN @ + 1 ELSE @]
        /\ CASE r = "doc" ->
                /\ unit' = [unit EXCEPT ![j].pc = "check1"]
                /\ logs' = logs
          [] r = "none" ->
                /\ unit' = [unit EXCEPT ![j].pc = "status", ![j].st = FAILED,
                                        ![j].msg = "not found"]
                /\ logs' = emit(logs, j, now, "WARNING", "not found")
          [] OTHER ->
                /\ unit' = [unit EXCEPT ![j].pc = "status", ![j].st = FAILED,
                                        ![j].msg = "Failed to index"]
                /\ logs' = emit(logs, j, now, "ERROR", "Failed to index")
    /\ UNCHANGED <<es_up, tz, poller, doc, pub, request, query, db, next_id, now, es_client, ep, active, reaper, visible, buffer_lock, caller, restarts>>

\* _index_publication_sync line 92: progress 'Indexing to Elasticsearch...'
WriteIndexing(j) ==
    /\ unit[j].pc = "index"
    /\ db' = update_process_progress(db, j, Progress("Indexing", 2, 2, -1, -1))
    /\ unit' = [unit EXCEPT ![j].pc = "index_log"]
    /\ UNCHANGED <<es_up, tz, poller, doc, pub, request, query, next_id, now, es_client, ep, active, logs, reaper, visible, buffer_lock, caller, restarts, hist>>

\* _index_publication_sync line 93: process_logger.info("Indexing to Elasticsearch...")
LogIndexing(j) ==
    /\ unit[j].pc = "index_log"
    /\ logs' = emit(logs, j, now, "INFO", "Indexing")
    /\ unit' = [unit EXCEPT ![j].pc = "index_call"]
    /\ UNCHANGED <<es_up, tz, poller, doc, pub, request, query, db, next_id, now, es_client, ep, active, reaper, visible, buffer_lock, caller, restarts, hist>>

\* _index_publication_sync line 95: es_client.index of the one document, a
\* call of the server that writes the document or raises
IndexOne(j) ==
    /\ unit[j].pc = "index_call"
    /\ \E ok \in WriteResults :
        IF ok
        THEN /\ unit' = [unit EXCEPT ![j].pc = "indexed_log", ![j].st = COMPLETED,
                                     ![j].total = 2, ![j].indexed = 1]
             /\ hist' = [hist EXCEPT ![j].writes = @ + 1, ![j].singles = @ + 1]
        ELSE /\ unit' = [unit EXCEPT ![j].pc = "indexed_log", ![j].st = FAILED,
                                     ![j].msg = "Failed to index"]
             /\ hist' = [hist EXCEPT ![j].singles = @ + 1]
    /\ UNCHANGED <<es_up, tz, poller, doc, pub, request, query, db, logs, next_id, now, es_client, ep, active, reaper, visible, buffer_lock, caller, restarts>>

\* _index_publication_sync line 96, process_logger.info("Successfully indexed
\* ..."), or lines 101-103 when es_client.index raised:
\* process_logger.error(error_msg)
LogIndexed(j) ==
    /\ unit[j].pc = "indexed_log"
    /\ logs' = IF unit[j].st = COMPLETED
               THEN emit(logs, j, now, "INFO", "Successfully indexed")
               ELSE emit(logs, j, now, "ERROR", "Failed to index")
    /\ unit' = [unit EXCEPT ![j].pc = "status"]
    /\ UNCHANGED <<es_up, tz, poller, doc, pub, request, query, db, next_id, now, es_client, ep, active, reaper, visible, buffer_lock, caller, restarts, hist>>

\* get_publications_from_scraper / get_publications_since: the ids found, and
\* the empty list when mysql_query raises (the except clause returns [])
CandidateList(ok, n) == IF ok THEN n ELSE 0

ProgressEvery(type) == IF type = SCRAPER THEN SCRAPER_PROGRESS_EVERY ELSE SYNC_PROGRESS_EVERY

\* The numbers of candidates tried: up to MaxItems, and one full period of the
\* progress write when the source holds that many rows
CandidateCounts(type) ==
    0..Min(visible, MaxItems)
        \cup (IF visible >= ProgressEvery(type) THEN {ProgressEvery(type)} ELSE {})

\* Lines 141-145 / 285-289: progress 'Fetching...' and the candidate listing
Fetch(j) ==
    /\ unit[j].pc = "fetch"
    /\ db' = update_process_progress(db, j, Progress("Fetching", 0, 0, -1, -1))
    /\ \E ok \in BOOLEAN, n \in CandidateCounts(unit[j].type) :
        /\ ok \/ n = 0
        /\ unit' = [unit EXCEPT ![j].pc = "found", ![j].total = CandidateList(ok, n)]
        /\ hist' = [hist EXCEPT ![j].listings = @ + 1, ![j].srcDown = ~ok]
    /\ UNCHANGED <<es_up, tz, poller, doc, pub, request, query, next_id, now, es_client, ep, active, logs, reaper, visible, buffer_lock, caller, restarts>>

\* The position after candidate i (counted from 1) of a batch recipe: the
\* check of the next iteration, or the line logged after the loop
AfterItem(j, done) ==
    IF done < unit[j].total THEN "loop" ELSE "end_log"

\* Lines 147-148 / 291-292: progress 'Found N ...'; an empty list skips the loop
Found(j) ==
    /\ unit[j].pc = "found"
    /\ db' = update_process_progress(db, j, Progress("Found", 0, unit[j].total, -1, -1))
    /\ unit' = [unit EXCEPT ![j].pc = IF unit[j].type = SCRAPER THEN "found_log"
                                      ELSE AfterItem(j, 0),
                            ![j].st = COMPLETED]
    /\ UNCHANGED <<es_up, tz, poller, doc, pub, request, query, next_id, now, es_client, ep, active, logs, reaper, visible, buffer_lock, caller, restarts, hist>>

\* Line 149: process_logger.info("Found N publications to index"), in the
\* incremental-by-source recipe only
LogFound(j) ==
    /\ unit[j].pc = "found_log"
    /\ logs' = emit(logs, j, now, "INFO", "Found")
    /\ unit' = [unit EXCEPT ![j].pc = AfterItem(j, 0)]
    /\ UNCHANGED <<es_up, tz, poller, doc, pub, request, query, db, next_id, now, es_client, ep, active, reaper, visible, buffer_lock, caller, restarts, hist>>

\* How one candidate of a batch recipe ends: indexed, no row, or an exception
\* of denormalize_publication or of es_client.index
ItemResults == {"indexed", "none", "denorm_raise", "index_raise"}

\* Variant: a candidate without row is counted as indexed
ItemIndexed_counts_absent(j, r) ==
    IF r \in {"indexed", "none"} THEN unit[j].indexed + 1 ELSE unit[j].indexed

\* The tallies after one candidate: lines 160-164 and 175-177
ItemIndexed(j, r) == IF r = "indexed" THEN unit[j].indexed + 1 ELSE unit[j].indexed
\* Variant: an exception of es_client.index is not counted
ItemFailed_denorm_only(j, r) ==
    IF r = "denorm_raise" THEN unit[j].failed + 1 ELSE unit[j].failed

\* except Exception: failed += 1
ItemFailed(j, r) ==
    IF r \in {"denorm_raise", "index_raise"} THEN unit[j].failed + 1 ELSE unit[j].failed

\* One iteration of the for loop after its stop check
Item(j) ==
    /\ unit[j].pc = "item"
    /\ \E r \in ItemResults :
        /\ r = "indexed" \/ hist[j].raised + hist[j].absent < MaxFaults
        /\ r = "indexed" => TRUE \in WriteResults
        /\ unit' = [unit EXCEPT
                ![j].i = @ + 1,
                ![j].indexed = ItemIndexed(j, r),
                ![j].failed = ItemFailed(j, r),
                ![j].pc = IF r \in {"indexed", "none"}
                             /\ (unit[j].i + 1) % ProgressEvery(unit[j].type) = 0
                          THEN "iprog"
                          ELSE AfterItem(j, unit[j].i + 1)]
        /\ hist' = [hist EXCEPT
                ![j].denorms = @ + 1,
                ![j].absent = IF r = "none" THEN @ + 1 ELSE @,
                ![j].writes = IF r = "indexed" THEN @ + 1 ELSE @,
                ![j].singles = IF r \in {"indexed", "index_raise"} THEN @ + 1 ELSE @,
                ![j].raised = IF r \in {"denorm_raise", "index_raise"} THEN @ + 1 ELSE @,
                ![j].wrote = r = "indexed"
                             /\ (unit[j].i + 1) % ProgressEvery(unit[j].type) = 0]
        /\ logs' = IF r \in {"denorm_raise", "index_raise"}
                   THEN emit(logs, j, now, "ERROR", "Failed to index publication")
                   ELSE logs
    /\ UNCHANGED <<es_up, tz, poller, doc, pub, request, query, db, next_id, now, es_client, ep, active, reaper, visible, buffer_lock, caller, restarts>>

\* Lines 166-177 / 309-319: the periodic progress write, inside the try of the
\* iteration.  The UPDATE is committed, or execute_query raises (sqlite.py
\* 105-122 re-raises what sqlite3 raised) and the except clause of the
\* iteration counts the candidate as failed, after indexed += 1 where a
\* document was written
ItemProgress(j) ==
    /\ unit[j].pc = "iprog"
    /\ \E ok \in BOOLEAN :
        /\ ok \/ hist[j].raised + hist[j].absent < MaxFaults
        /\ IF ok
           THEN /\ db' = update_process_progress(db, j,
                           Progress("Progress", unit[j].i, unit[j].total, unit[j].indexed, unit[j].failed))
                /\ logs' = logs
                /\ unit' = [unit EXCEPT ![j].pc = IF unit[j].type = SCRAPER THEN "iprog_log"
                                                  ELSE AfterItem(j, unit[j].i)]
                /\ hist' = [hist EXCEPT ![j].wrote = FALSE]
           ELSE /\ db' = db
                /\ logs' = emit(logs, j, now, "ERROR", "Failed to index publication")
                /\ unit' = [unit EXCEPT ![j].pc = AfterItem(j, unit[j].i), ![j].failed = @ + 1]
                /\ hist' = [hist EXCEPT ![j].wrote = FALSE,
                                        ![j].raised = @ + 1,
                                        ![j].late = @ + 1,
                                        ![j].both = IF hist[j].wrote THEN @ + 1 ELSE @]
    /\ UNCHANGED <<es_up, tz, poller, doc, pub, request, query, next_id, now, es_client, ep, active, reaper, visible, buffer_lock, caller, restarts>>

\* Line 174: process_logger.info("Progress: ..."), after the periodic progress
\* write of the incremental-by-source recipe
LogItemProgress(j) ==
    /\ unit[j].pc = "iprog_log"
    /\ logs' = emit(logs, j, now, "INFO", "Progress")
    /\ unit' = [unit EXCEPT ![j].pc = AfterItem(j, unit[j].i)]
    /\ UNCHANGED <<es_up, tz, poller, doc, pub, request, query, db, next_id, now, es_client, ep, active, reaper, visible, buffer_lock, caller, restarts, hist>>

\* Lines 180 / 321 / 444: the line logged after the loop, before the status write
LogCompleted(j) ==
    /\ unit[j].pc = "end_log"
    /\ logs' = emit(logs, j, now, "INFO", "Completed")
    /\ unit' = [unit EXCEPT ![j].pc = "status"]
    /\ UNCHANGED <<es_up, tz, poller, doc, pub, request, query, db, next_id, now, es_client, ep, active, reaper, visible, buffer_lock, caller, restarts, hist>>

\* The number of non-empty pages of n ids
PagesOf(n) == (n + BATCH_SIZE - 1) \div BATCH_SIZE

\* get_all_publication_ids(batch_size, offset): the length of the page, which is
\* empty past the end and when mysql_query raises (the except clause returns [])
PageLen(ok, n, offset) ==
    IF ok /\ offset < n THEN Min(BATCH_SIZE, n - offset) ELSE 0

\* Lines 375-383, the counting pass: pages are added up until one comes back
\* empty; failAt is the first read that fails (PagesOf(n) when none does)
CountPass(n, failAt) == IF failAt < PagesOf(n) THEN failAt * BATCH_SIZE ELSE n

\* _index_bulk_sync line 373: process_logger.info("Starting bulk indexing...")
LogBulkStart(j) ==
    /\ unit[j].pc = "bstart"
    /\ logs' = emit(logs, j, now, "INFO", "Starting bulk indexing")
    /\ unit' = [unit EXCEPT ![j].pc = "count"]
    /\ UNCHANGED <<es_up, tz, poller, doc, pub, request, query, db, next_id, now, es_client, ep, active, reaper, visible, buffer_lock, caller, restarts, hist>>

\* _index_bulk_sync lines 375-386: the counting pass and progress 'Found N ...'
Count(j) ==
    /\ unit[j].pc = "count"
    /\ \E failAt \in 0..PagesOf(visible) :
        /\ unit' = [unit EXCEPT ![j].pc = "bloop", ![j].st = COMPLETED,
                                ![j].total = CountPass(visible, failAt)]
        /\ db' = update_process_progress(db, j,
                    Progress("Found", 0, CountPass(visible, failAt), -1, -1))
        /\ hist' = [hist EXCEPT ![j].listings = @ + Min(failAt, PagesOf(visible)) + 1,
                                ![j].srcDown = failAt < PagesOf(visible)]
    /\ UNCHANGED <<es_up, tz, poller, doc, pub, request, query, next_id, now, es_client, ep, active, logs, reaper, visible, buffer_lock, caller, restarts>>

\* streaming_bulk(es_client, actions, chunk_size=500): the documents go to the
\* server in chunks of at most 500, one bulk request (es_client.bulk) for each
ChunksOf(docs) == (docs + CHUNK_SIZE - 1) \div CHUNK_SIZE

\* The number of documents in chunk c, counted from 0
ChunkLen(docs, c) == Min(CHUNK_SIZE, docs - c * CHUNK_SIZE)

\* The documents of a chunk that are in the index when its request failed: none
\* when the request raised, else those the server reported as written, which
\* streaming_bulk yields as ok before it raises BulkIndexError for the chunk
\* (raise_on_error is left at True).  Any number below len can be written; the
\* two ends are taken, none and all but one
ChunkWritten(len) == IF es_up THEN {0, len - 1} ELSE {0}

\* Line 395: get_all_publication_ids(batch_size, offset), one query of the
\* source; an empty page ends the loop
Page(j) ==
    /\ unit[j].pc = "page"
    /\ \E ok \in BOOLEAN :
       LET len == PageLen(ok, visible, unit[j].offset) IN
       /\ unit' = [unit EXCEPT ![j].pc = IF len = 0 THEN "end_log" ELSE "pdenorm",
                               ![j].plen = len]
       /\ hist' = [hist EXCEPT ![j].listings = @ + 1,
                               ![j].pageDown = @ \/ (len = 0 /\ unit[j].offset < visible)]
    /\ UNCHANGED <<es_up, tz, poller, doc, pub, request, query, db, logs, next_id, now, es_client, ep, active, reaper, visible, buffer_lock, caller, restarts>>

\* Lines 403-415, the for loop over the ids of the page, up to its next access
\* of the log buffer.  Either denormalize_publication raises for the next id
\* (total_failed += 1; the ERROR line follows), or it raises for none of the
\* ids left: `none` of them have no row and the others are collected in
\* actions.  The ids that raise are the first of the page.  With actions empty
\* the bulk call is skipped (line 417) and offset += batch_size follows.
PageDenormalize(j) ==
    /\ unit[j].pc = "pdenorm"
    /\ LET left == unit[j].plen - unit[j].k
           faults == hist[j].raised + hist[j].absent
       IN  \E raise \in BOOLEAN :
           IF raise
           THEN /\ left > 0
                /\ faults < MaxFaults
                /\ unit' = [unit EXCEPT ![j].k = @ + 1, ![j].failed = @ + 1,
                                        ![j].pc = "pdenorm_log"]
                /\ hist' = [hist EXCEPT ![j].denorms = @ + 1, ![j].raised = @ + 1]
           ELSE \E none \in 0..Min(left, MaxFaults - faults) :
                /\ unit' = IF left = none
                           THEN [unit EXCEPT ![j].plen = 0, ![j].k = 0,
                                             ![j].offset = @ + BATCH_SIZE,
                                             ![j].pc = "bprog"]
                           ELSE [unit EXCEPT ![j].k = unit[j].plen,
                                             ![j].docs = left - none,
                                             ![j].pc = "bulk"]
                /\ hist' = [hist EXCEPT ![j].denorms = @ + left,
                                        ![j].absent = @ + none,
                                        ![j].docPages = IF left > none THEN @ + 1 ELSE @]
    /\ UNCHANGED <<es_up, tz, poller, doc, pub, request, query, db, logs, next_id, now, es_client, ep, active, reaper, visible, buffer_lock, caller, restarts>>

\* Lines 413-414: process_logger.error("Failed to denormalize publication ..."),
\* written as soon as the id raised, before the next id is tried
LogDenormalizeFailed(j) ==
    /\ unit[j].pc = "pdenorm_log"
    /\ logs' = emit(logs, j, now, "ERROR", "Failed to denormalize")
    /\ unit' = [unit EXCEPT ![j].pc = "pdenorm"]
    /\ UNCHANGED <<es_up, tz, poller, doc, pub, request, query, db, next_id, now, es_client, ep, active, reaper, visible, buffer_lock, caller, restarts, hist>>

\* Lines 417-431: the streaming_bulk call over actions, one bulk request in a
\* step.  A request whose items are all written is followed by the next chunk
\* and, after the last, by total_indexed += success_count.  A request that
\* raises, or that reports an item as failed, ends the call with an exception
\* and success_count is dropped.  offset += batch_size follows the call.
Bulk(j) ==
    /\ unit[j].pc = "bulk"
    /\ LET len == ChunkLen(unit[j].docs, unit[j].chunk)
           last == unit[j].chunk + 1 = ChunksOf(unit[j].docs)
       IN  \E ok \in WriteResults :
           \E written \in (IF ok THEN {len} ELSE ChunkWritten(len)) :
           /\ unit' = IF ok
                      THEN IF last
                           THEN [unit EXCEPT ![j].indexed = @ + unit[j].docs,
                                             ![j].plen = 0, ![j].k = 0, ![j].docs = 0,
                                             ![j].chunk = 0,
                                             ![j].offset = @ + BATCH_SIZE,
                                             ![j].pc = "bprog"]
                           ELSE [unit EXCEPT ![j].chunk = @ + 1]
                      ELSE [unit EXCEPT ![j].pc = "bulk_log"]
           /\ hist' = [hist EXCEPT ![j].bulks = IF unit[j].chunk = 0 THEN @ + 1 ELSE @,
                                   ![j].requests = @ + 1,
                                   ![j].writes = @ + written]
    /\ UNCHANGED <<es_up, tz, poller, doc, pub, request, query, db, logs, next_id, now, es_client, ep, active, reaper, visible, buffer_lock, caller, restarts>>

\* Lines 427-431, the except clause: process_logger.error("Bulk insert failed:
\* ..."), then total_failed += len(actions), which counts every document of
\* the page, then offset += batch_size
LogBulkFailed(j) ==
    /\ unit[j].pc = "bulk_log"
    /\ logs' = emit(logs, j, now, "ERROR", "Bulk insert failed")
    /\ unit' = [unit EXCEPT ![j].failed = @ + unit[j].docs,
                            ![j].plen = 0, ![j].k = 0, ![j].docs = 0,
                            ![j].chunk = 0,
                            ![j].offset = @ + BATCH_SIZE, ![j].pc = "bprog"]
    /\ UNCHANGED <<es_up, tz, poller, doc, pub, request, query, db, next_id, now, es_client, ep, active, reaper, visible, buffer_lock, caller, restarts, hist>>

\* Lines 433-440: the progress write after each page
BulkProgress(j) ==
    /\ unit[j].pc = "bprog"
    /\ db' = update_process_progress(db, j,
                Progress("Progress", unit[j].offset, unit[j].total,
                         unit[j].indexed, unit[j].failed))
    /\ unit' = [unit EXCEPT ![j].pc = "bprog_log"]
    /\ UNCHANGED <<es_up, tz, poller, doc, pub, request, query, next_id, now, es_client, ep, active, logs, reaper, visible, buffer_lock, caller, restarts, hist>>

\* Line 442: process_logger.info("Bulk indexing progress: ...")
LogBulkProgress(j) ==
    /\ unit[j].pc = "bprog_log"
    /\ logs' = emit(logs, j, now, "INFO", "Bulk indexing progress")
    /\ unit' = [unit EXCEPT ![j].pc = "bloop"]
    /\ UNCHANGED <<es_up, tz, poller, doc, pub, request, query, db, next_id, now, es_client, ep, active, reaper, visible, buffer_lock, caller, restarts, hist>>

\* Variant: the executor leaves without its status write
UpdateStatus_no_write(j) ==
    /\ unit[j].pc = "status"
    /\ unit' = [unit EXCEPT ![j].pc = "unreg"]
    /\ UNCHANGED <<es_up, tz, poller, doc, pub, request, query, db, logs, next_id, now, es_client, ep, active, reaper, visible, buffer_lock, caller, restarts, hist>>

\* Variant: the 'failed' write passes no message
StatusMessage_none(st, msg) == NULL

\* The error_message argument of the status write: error_msg with 'failed',
\* the default None with 'completed'
StatusMessage(st, msg) == IF st = FAILED THEN msg ELSE NULL

\* update_process_status (process_manager.py line 122): the status write of the
\* executor, 'completed' at the end of the recipe or 'failed' with its message
UpdateStatus(j) ==
    /\ unit[j].pc = "status"
    /\ db' = update_process_status_repo(db, j, unit[j].st,
                StatusMessage(unit[j].st, unit[j].msg), now)
    /\ unit' = [unit EXCEPT ![j].pc = "unreg"]
    /\ hist' = [hist EXCEPT ![j].ended = IF j \in DOMAIN db THEN now ELSE @]
    /\ UNCHANGED <<es_up, tz, poller, doc, pub, request, query, next_id, now, es_client, ep, active, logs, reaper, visible, buffer_lock, caller, restarts>>

\* update_process_status lines 124-125: unregister_active_process on a terminal status
Unregister(j) ==
    /\ unit[j].pc = "unreg"
    /\ active' = unregister_active_process(active, j)
    /\ unit' = [unit EXCEPT ![j].pc = IF unit[j].st = COMPLETED THEN "final" ELSE "done"]
    /\ UNCHANGED <<es_up, tz, poller, doc, pub, request, query, db, next_id, now, es_client, ep, logs, reaper, visible, buffer_lock, caller, restarts, hist>>

\* The last progress write, after the 'completed' status write
FinalProgress(j) ==
    /\ unit[j].pc = "final"
    /\ db' = update_process_progress(db, j,
                Progress("Completed", unit[j].total, unit[j].total,
                         unit[j].indexed, unit[j].failed))
    /\ unit' = [unit EXCEPT ![j].pc = "done"]
    /\ UNCHANGED <<es_up, tz, poller, doc, pub, request, query, next_id, now, es_client, ep, active, logs, reaper, visible, buffer_lock, caller, restarts, hist>>

----------------------------------------------------------------------------
(* The Reaper: app/services/cleanup_service.py, run_cleanup on its own thread *)

\* cleanup_old_processes, then cleanup_orphaned_logs line 46:
\* delete_old_processes(settings.PROCESS_RETENTION_DAYS) and
\* existing_process_ids = set(get_all_process_ids())
ReaperDelete ==
    /\ reaper.at = "idle"
    /\ db' = delete_old_processes(db, PROCESS_RETENTION_DAYS, now)
    /\ reaper' = [at |-> "buffers", existing |-> get_all_process_ids(db'),
                  deleted |-> old_processes(db, PROCESS_RETENTION_DAYS, now)]
    /\ UNCHANGED <<es_up, tz, poller, doc, pub, request, query, next_id, now, es_client, ep, active, unit, logs, visible, buffer_lock, caller, restarts, hist>>

\* The buffers cleanup_orphaned_logs removes: those of no id read from the table
orphaned_process_ids(b, existing) == get_all_buffer_process_ids(b) \ existing

\* cleanup_orphaned_logs lines 49-56, then vacuum_database
ReaperSweep ==
    /\ reaper.at = "buffers"
    /\ logs' = [k \in DOMAIN logs \ orphaned_process_ids(logs, reaper.existing) |-> logs[k]]
    /\ reaper' = ReaperIdle
    /\ UNCHANGED <<es_up, tz, poller, doc, pub, request, query, db, next_id, now, es_client, ep, active, unit, visible, buffer_lock, caller, restarts, hist>>

----------------------------------------------------------------------------
(* The environment: time passes, and the process may be restarted *)

\* Days pass between jobs: no work unit outlives the retention window
Tick(d) ==
    /\ now + d <= MaxTicks * (PROCESS_RETENTION_DAYS * HoursPerDay + 1)
    /\ ep.at = "idle"
    /\ \A j \in Jobs : unit[j].pc \in {"idle", "cancelled", "lost", "done"}
    /\ now' = now + d
    /\ UNCHANGED <<es_up, tz, poller, doc, pub, request, query, db, next_id, es_client, ep, active, unit, logs, reaper, visible, buffer_lock, caller, restarts, hist>>

\* A restart empties the module-level tables (process_manager.py lines 27-28,
\* logging_handler.py lines 16-17, elasticsearch.py line 14) and ends every
\* thread; the SQLite file stays.
Restart ==
    /\ restarts < MaxRestarts
    /\ restarts' = restarts + 1
    /\ active' = {}
    /\ logs' = << >>
    /\ es_client' = FALSE
    /\ ep' = EpIdle
    /\ reaper' = ReaperIdle
    /\ unit' = [j \in Jobs |->
                  IF unit[j].pc \in {"idle", "cancelled", "done"}
                  THEN unit[j]
                  ELSE [unit[j] EXCEPT !.pc = "lost"]]
    /\ UNCHANGED <<es_up, tz, poller, doc, pub, request, query, db, next_id, now, hist, visible, buffer_lock, caller>>

----------------------------------------------------------------------------

\* The Elasticsearch server stops answering, and answers again
EngineDown ==
    /\ es_up
    /\ es_up' = FALSE
    /\ UNCHANGED <<tz, poller, doc, pub, request, query, db, next_id, now, es_client, ep, active, unit, logs, reaper, visible, buffer_lock, caller, restarts, hist>>

EngineUp ==
    /\ ~es_up
    /\ es_up' = TRUE
    /\ UNCHANGED <<tz, poller, doc, pub, request, query, db, next_id, now, es_client, ep, active, unit, logs, reaper, visible, buffer_lock, caller, restarts, hist>>

Start == StartLookup \/ StartInit \/ StartRejected \/ \E type \in valid_types : StartCreate(type)
Stop == \E j \in Jobs : stop_indexer_process(j)
\* One step of the pool thread that runs job j
WorkOf(j) ==
    \/ Take(j)
    \/ Begin(j)
    \/ LogStarted(j)
    \/ WriteStarting(j)
    \/ LogStarting(j)
    \/ GetClient(j)
    \/ CheckStopped(j)
    \/ WriteDenormalizing(j)
    \/ LogDenormalizing(j)
    \/ Denormalize(j)
    \/ WriteIndexing(j)
    \/ LogIndexing(j)
    \/ IndexOne(j)
    \/ LogIndexed(j)
    \/ Fetch(j)
    \/ Found(j)
    \/ LogFound(j)
    \/ Item(j)
    \/ ItemProgress(j)
    \/ LogItemProgress(j)
    \/ LogCompleted(j)
    \/ LogBulkStart(j)
    \/ Count(j)
    \/ Page(j)
    \/ PageDenormalize(j)
    \/ LogDenormalizeFailed(j)
    \/ Bulk(j)
    \/ LogBulkFailed(j)
    \/ BulkProgress(j)
    \/ LogBulkProgress(j)
    \/ UpdateStatus(j)
    \/ Unregister(j)
    \/ FinalProgress(j)
Work == \E j \in Jobs : WorkOf(j)
Reap == ReaperDelete \/ ReaperSweep
\* Exactly the retention window passes, or an hour less, or an hour more
Retention == PROCESS_RETENTION_DAYS * HoursPerDay
Pass == \E d \in {Retention - 1, Retention, Retention + 1} : Tick(d)

Next ==
    \/ Start
    \/ StartSubmit
    \/ StartRegister
    \/ Stop
    \/ Work
    \/ Reap
    \/ Pass
    \/ Restart

Spec == Init /\ [][Next]_vars

\* Single-item jobs of a process that runs under any of the offsets, with the
\* Reaper and the clock: the stamps of update_process_status are local times
InitZone == Fresh /\ visible = MaxItems
StartSingle == StartCreate(LICITACION)
WorkSingle ==
    \E j \in Jobs :
        \/ Take(j)
        \/ Begin(j)
        \/ LogStarted(j)
        \/ WriteStarting(j)
        \/ LogStarting(j)
        \/ GetClient(j)
        \/ CheckStopped(j)
        \/ WriteDenormalizing(j)
        \/ LogDenormalizing(j)
        \/ Denormalize(j)
        \/ WriteIndexing(j)
        \/ LogIndexing(j)
        \/ IndexOne(j)
        \/ LogIndexed(j)
        \/ UpdateStatus(j)
        \/ Unregister(j)
        \/ FinalProgress(j)
NextZone == StartLookup \/ StartInit \/ StartSingle \/ StartRejected \/ StartSubmit \/ StartRegister \/ Stop \/ WorkSingle \/ Reap \/ Pass
SpecZone == InitZone /\ [][NextZone]_vars

\* The pool threads are scheduled fairly and the process is not restarted
NextLive == Start \/ StartSubmit \/ StartRegister \/ Stop \/ Work \/ Reap \/ Pass
SpecLive ==
    /\ Init
    /\ [][NextLive]_vars
    /\ WF_vars(StartSubmit)
    /\ \A j \in Jobs : WF_vars(WorkOf(j))

\* The server may stop answering and answer again at any moment, also between
\* the request that starts a job and the first step of its work unit; no day
\* passes and the process is not restarted
NextEngine ==
    Start \/ StartSubmit \/ StartRegister \/ Stop \/ Work \/ EngineDown \/ EngineUp
SpecEngine == Init /\ [][NextEngine]_vars

\* The data source holds one row more than a page of the bulk pass; the jobs
\* run to their end with no day passing and no restart
InitPages == Fresh /\ visible = BATCH_SIZE + 1 /\ tz = 0
NextPages == Start \/ StartSubmit \/ StartRegister \/ Stop \/ Work
SpecPages == InitPages /\ [][NextPages]_vars

\* Full reindex alone, over sources of no row, one row, one full page, a page
\* and a row, and two pages and a half
SourceSizes == {0, 1, BATCH_SIZE, BATCH_SIZE + 1, 2 * BATCH_SIZE + CHUNK_SIZE}
InitBulk == Fresh /\ visible \in SourceSizes /\ tz = 0
StartBulk == StartCreate(BULK)
WorkBulk ==
    \E j \in Jobs :
        \/ Take(j)
        \/ Begin(j)
        \/ WriteStarting(j)
        \/ GetClient(j)
        \/ CheckStopped(j)
        \/ LogBulkStart(j)
        \/ Count(j)
        \/ Page(j)
        \/ PageDenormalize(j)
        \/ LogDenormalizeFailed(j)
        \/ Bulk(j)
        \/ LogBulkFailed(j)
        \/ BulkProgress(j)
        \/ LogBulkProgress(j)
        \/ LogCompleted(j)
        \/ UpdateStatus(j)
        \/ Unregister(j)
        \/ FinalProgress(j)
NextBulk == StartLookup \/ StartInit \/ StartBulk \/ StartRejected \/ StartSubmit \/ StartRegister \/ Stop \/ WorkBulk
SpecBulk == InitBulk /\ [][NextBulk]_vars

\* The log buffers alone: one handler is attached to a job and the job's
\* logger writes lines through it.  Each line is stamped with the clock.
LogOpen(j) ==
    /\ logs = << >>
    /\ logs' = handler_init(logs, j)
    /\ UNCHANGED <<es_up, tz, poller, doc, pub, request, query, db, next_id, now, es_client, ep, active, unit, reaper, visible, buffer_lock, caller, restarts, hist>>

\* process_logger.info(...): one emit; the clock moves on by d before the next
LogLine(j, d) ==
    /\ j \in DOMAIN logs
    /\ logs' = emit(logs, j, now, "INFO", "line")
    /\ now' = now + d
    /\ UNCHANGED <<es_up, tz, poller, doc, pub, request, query, db, next_id, es_client, ep, active, unit, reaper, visible, buffer_lock, caller, restarts, hist>>

\* A long run of lines, each at a later instant than the one before: the
\* number of lines written so far is the clock
LogOpenAny == \E j \in Jobs : LogOpen(j)
LogRun == \E j \in Jobs : now < MaxAppends /\ LogLine(j, 1)
NextLog == LogOpenAny \/ LogRun
SpecLog == Init /\ [][NextLog]_vars

\* A short burst of lines, several of which may carry the same instant
LogBurst ==
    \E j \in Jobs, d \in {0, 1} :
        /\ j \in DOMAIN logs
        /\ Len(logs[j]) < MaxLogs
        /\ LogLine(j, d)
NextSince == LogOpenAny \/ LogBurst
SpecSince == Init /\ [][NextSince]_vars

\* GET /processes/{id}/logs?since=...: 404 when the job has no record, else the
\* entries get_process_logs returns and, as last_timestamp, the timestamp of
\* the last of them (None when there is none)
get_indexer_logs(j, since) ==
    IF get_process(db, j) = << >>
    THEN [code |-> 404, logs |-> << >>, last_timestamp |-> NoSince]
    ELSE LET entries == get_process_logs(logs, j, since) IN
         [code |-> 200, logs |-> entries,
          last_timestamp |-> IF entries = << >> THEN NoSince
                             ELSE Naive(entries[Len(entries)].timestamp)]

\* One poll of the log client: it sends the last_timestamp of its previous
\* answer, and keeps the since it had when the answer carries none
Poll(j) ==
    /\ poller[j].polls < MaxPolls
    /\ LET r == get_indexer_logs(j, poller[j].since) IN
       poller' = [poller EXCEPT ![j].polls = @ + 1,
                                ![j].seen = @ \o r.logs,
                                ![j].since = IF r.last_timestamp = NoSince THEN @
                                             ELSE r.last_timestamp]
    /\ UNCHANGED <<es_up, tz, doc, pub, request, query, db, next_id, now, es_client, ep, active, unit, logs, reaper, visible, buffer_lock, caller, restarts, hist>>

\* A job started through the endpoint: a pool thread takes it and attaches its
\* handler, the buffer fills in bursts, and a client polls the logs
Polling == \E j \in Jobs : Poll(j)
Attach == \E j \in Jobs : Take(j) \/ Begin(j)
NextPoll == Start \/ StartSubmit \/ StartRegister \/ Attach \/ LogBurst \/ Polling
SpecPoll == Init /\ [][NextPoll]_vars

\* clear_process_logs: the buffer of the job is emptied in place
clear_process_logs(b, id) == IF id \in DOMAIN b THEN [b EXCEPT ![id] = << >>] ELSE b

\* The lock of the log buffers.  Thread t runs the handler of job t (the
\* handler of a job is used by the thread executing the job only) and any
\* thread may clear, remove or read any job's buffer and list the buffers.
\* Each of the six functions does its work on _log_buffers inside
\* "with _buffer_lock:".
HandlerOps == {"__init__", "emit"}
LockOps == HandlerOps \cup {"remove_process_logs", "clear_process_logs", "get_process_logs",
                            "get_all_buffer_process_ids"}

\* A thread enters one of the functions and arrives at "with _buffer_lock:"
LockCall(t, op, id) ==
    /\ caller[t].pc = "idle"
    /\ op \in HandlerOps \cup {"get_all_buffer_process_ids"} => id = t
    /\ op = "emit" => (IF id \in DOMAIN logs THEN Len(logs[id]) < MaxLogs ELSE TRUE)
    /\ caller' = [caller EXCEPT ![t] = [pc |-> "acquire", op |-> op, id |-> id]]
    /\ UNCHANGED <<es_up, tz, poller, doc, pub, request, query, db, next_id, now, es_client, ep, active, unit, logs, reaper, visible,
                   restarts, buffer_lock, hist>>

\* Variant: emit appends without taking the lock
CanAcquire_append_free(t) == buffer_lock = Free \/ caller[t].op = "emit"

\* threading.Lock.acquire returns once the lock is unlocked
CanAcquire(t) == buffer_lock = Free

LockAcquire(t) ==
    /\ caller[t].pc = "acquire"
    /\ CanAcquire(t)
    /\ buffer_lock' = t
    /\ caller' = [caller EXCEPT ![t].pc = "locked"]
    /\ UNCHANGED <<es_up, tz, poller, doc, pub, request, query, db, next_id, now, es_client, ep, active, unit, logs, reaper, visible,
                   restarts, hist>>

\* The body of the with block, and the release at its end
LockBody(b, op, id) ==
    CASE op = "__init__" -> handler_init(b, id)
      [] op = "emit" -> emit(b, id, now, "INFO", "line")
      [] op = "remove_process_logs" -> remove_process_logs(b, id)
      [] op = "clear_process_logs" -> clear_process_logs(b, id)
      [] OTHER -> b

LockLeave(t) ==
    /\ caller[t].pc = "locked"
    /\ logs' = LockBody(logs, caller[t].op, caller[t].id)
    /\ buffer_lock' = Free
    /\ caller' = [caller EXCEPT ![t] = CallerIdle]
    /\ UNCHANGED <<es_up, tz, poller, doc, pub, request, query, db, next_id, now, es_client, ep, active, unit, reaper, visible,
                   restarts, hist>>

LockEnter == \E t \in Threads, op \in LockOps, id \in Threads : LockCall(t, op, id)
LockTake == \E t \in Threads : LockAcquire(t)
LockDone == \E t \in Threads : LockLeave(t)
NextLock == LockEnter \/ LockTake \/ LockDone
SpecLock == Init /\ [][NextLock]_vars

\* The query builder alone: a request arrives with some of the parameters
\* given, and the query is built for it
Absent == "(absent)"
Opt(k, v) == IF v = Absent THEN << >> ELSE k :> v
TextValues == {Absent, "  ", " obra "}
CategoryValues == {Absent, "", "all", "7", " 7 ", "-3", "Chile", "All", "7.0"}
TagLists == {<< >>, <<3, 5>>}
DateValues == {Absent, "01/02/2024", "2024-02-01"}
InitQuery ==
    /\ \E search \in TextValues, objeto \in {Absent, " obra "}, agencia \in {Absent, "obra"},
          pais \in CategoryValues, rubro \in CategoryValues,
          tagsGiven \in BOOLEAN, tags \in TagLists,
          filter_mode \in {Absent, "all", "user_tags"},
          apertura_fr \in DateValues, apertura_to \in {Absent, "1/2/2024"},
          incluirVencidos \in {Absent, "0", "1"}, soloVigentes \in {Absent, "1"} :
            request = Opt("search", search) @@ Opt("objeto", objeto) @@ Opt("agencia", agencia)
                        @@ Opt("pais", pais) @@ Opt("rubro", rubro)
                        @@ (IF tagsGiven THEN "user_tag_ids" :> tags ELSE << >>)
                        @@ Opt("filter_mode", filter_mode)
                        @@ Opt("apertura_fr", apertura_fr) @@ Opt("apertura_to", apertura_to)
                        @@ Opt("incluirVencidos", incluirVencidos)
                        @@ Opt("soloVigentes", soloVigentes)
    /\ query = NoQuery
    /\ visible = MaxItems
    /\ db = << >>
    /\ next_id = 1
    /\ now = 0
    /\ es_client = FALSE
    /\ es_up = TRUE
    /\ ep = EpIdle
    /\ active = {}
    /\ unit = [j \in Jobs |-> UnitInit]
    /\ logs = << >>
    /\ reaper = ReaperIdle
    /\ restarts = 0
    /\ buffer_lock = Free
    /\ caller = [t \in Threads |-> CallerIdle]
    /\ pub = NoRow
    /\ doc = NoDoc
    /\ poller = [j \in Jobs |-> PollerInit]
    /\ tz = 0
    /\ hist = [j \in Jobs |-> HistInit]

Build ==
    /\ query = NoQuery
    /\ query' = build_es_query(request)
    /\ UNCHANGED <<es_up, tz, poller, doc, pub, request, db, next_id, now, es_client, ep, active, unit, logs, reaper,
                   visible, restarts, buffer_lock, caller, hist>>

NextQuery == Build
SpecQuery == InitQuery /\ [][NextQuery]_vars

\* The denormalizer alone: the query of lines 24-53 finds a row, and the
\* document is built from it.  A column of an outer join that found nothing,
\* or a column that is NULL in the table, comes as None.
SomeDate == <<"2", "0", "2", "4", "-", "0", "2", "-", "0", "1">>
NullableColumns ==
    {"referencia", "link", "pais_nombre", "visible", "tasaCambioUSD", "tipo_licit_id_esAR",
     "tipo_licit_id_ptBR", "tipo_licit_id_enUS", "mercado_ids_raw"}
DateValues2 == {PyNone, PyStr(ZeroDate \o <<" ", "0", "0", ":", "0", "0", ":", "0", "0">>),
                PyStr(SomeDate)}
TagValues == {PyNone, PyStr(<<"3", ":", "o", "b", "r", "a", ",", "5", ":">>)}
MoneyTexts ==
    {<<"$", "0", ",", "0", "0">>,
     <<"$", "1", ".", "2", "3", "4", ",", "5", "0">>,
     <<"$", "3", ".", "9", "0", "0", ".", "0", "0", "0", ",", "0", "0">>,
     <<"$", "7", ",", "0", "5">>}
PlainNumbers == {PyInt(0), PyInt(5), PyFloat(0), PyFloat(1250)}
OtherMontos ==
    {PyNone, PyStr(<< >>), PyStr(<<" ">>), PyStr(<<"0">>), PyStr(<<"1", "2", "3", "4">>),
     PyStr(<<"1", "2", ".", "5">>), PyStr(<<"a", "b", "c">>), PyStr(<<"$">>),
     PyStr(<<"1", ",", "2", ",", "3">>), PyStr(<<" ", "$", " ", "9", "0", ",", "5", " ">>)}
MontoValues == PlainNumbers \cup {PyStr(m) : m \in MoneyTexts} \cup OtherMontos

\* The instants UTC_TIMESTAMP() gives the query: one before the date of the
\* rows and one after it
UtcTimestamps ==
    {<<"2", "0", "2", "4", "-", "0", "1", "-", "0", "1">>,
     <<"2", "0", "2", "6", "-", "0", "1", "-", "0", "1">>}

\* Line 36 of the query: (CASE WHEN p.apertura >= UTC_TIMESTAMP() THEN 1 ELSE 0
\* END) as vigente.  A NULL apertura compares as not true and the zero date is
\* before every instant, so both give 0; dates compare by year, month and day
vigente(apertura, utc_timestamp) ==
    LET day(chars) == 10000 * digits_value(SubSeq(chars, 1, 4))
                        + 100 * digits_value(SubSeq(chars, 6, 7))
                        + digits_value(SubSeq(chars, 9, 10))
    IN  IF apertura = PyNone THEN PyInt(0)
        ELSE IF day(apertura.s) >= day(utc_timestamp) THEN PyInt(1) ELSE PyInt(0)

\* Lines 24-59: the row the query returns, with vigente computed by the query
\* from the row's apertura and the instant of the read
FetchRow ==
    /\ pub = NoRow
    /\ \E nulls \in SUBSET NullableColumns, apertura \in DateValues2, tags \in TagValues,
          monto \in MontoValues, utc_timestamp \in UtcTimestamps :
            pub' = [k \in NullableColumns |-> IF k \in nulls THEN PyNone
                                              ELSE IF k = "mercado_ids_raw"
                                                   THEN PyStr(<<"2", ",", " ", "7">>)
                                                   ELSE PyInt(1)]
                   @@ ("apertura" :> apertura) @@ ("cierre" :> PyStr(SomeDate))
                   @@ ("tags_raw" :> tags)
                   @@ ("tag_ids_raw" :> (IF tags = PyNone THEN PyNone
                                         ELSE PyStr(<<"3", ",", "5">>)))
                   @@ ("monto" :> monto)
                   @@ ("vigente" :> vigente(apertura, utc_timestamp))
                   @@ ("id" :> PyInt(1)) @@ ("objeto" :> PyStr(<<"o", "b", "r", "a">>))
    /\ UNCHANGED <<es_up, tz, poller, db, next_id, now, es_client, ep, active, unit, logs, reaper, visible,
                   restarts, buffer_lock, caller, request, query, doc, hist>>

BuildDoc ==
    /\ pub # NoRow
    /\ doc = NoDoc
    /\ doc' = denormalize_publication(pub)
    /\ UNCHANGED <<es_up, tz, poller, db, next_id, now, es_client, ep, active, unit, logs, reaper, visible,
                   restarts, buffer_lock, caller, request, query, pub, hist>>

NextDoc == FetchRow \/ BuildDoc
SpecDoc == Init /\ [][NextDoc]_vars

----------------------------------------------------------------------------
(* Properties *)

\* The row of job j is there and reads status s
Reads(d, j, s) == j \in DOMAIN d /\ d[j].status = s

\* C1: every change of a job's durable status goes from RUNNING to one of
\* COMPLETED, FAILED, STOPPED; a status that is COMPLETED, FAILED or STOPPED
\* never changes to another value.
C1_StatusMonotone ==
    [][\A j \in DOMAIN db \cap DOMAIN db' :
          db'[j].status # db[j].status =>
              db[j].status = RUNNING /\ db'[j].status \in Terminal]_vars

\* C1, the case found: a stop request answered True wrote STOPPED, and the
\* executor's later status write replaced it by COMPLETED
C1_Overwritten ==
    \E j \in Jobs : hist[j].stopTrue /\ Reads(db, j, COMPLETED) /\ unit[j].pc = "done"

\* C2 as stated: stop_indexer_process on a job whose unit has begun, and whose
\* handle is registered, does not write the durable status.
C2_StopLeavesStatus ==
    [][\A j \in Jobs :
          (stop_indexer_process(j) /\ hist[j].begun /\ j \in active /\ j \in DOMAIN db)
              => db'[j].status = db[j].status]_vars

\* C2 amended: stop_indexer_process on a job whose unit has begun and whose
\* handle is registered itself writes status STOPPED, completed_at and a null
\* error_message into the row, leaving the handle table and the unit as they
\* are; no step of a work unit turns a status into STOPPED, and a unit that
\* reads STOPPED (or no row) at one of its checks ends with no write to the table.
C2_StopWritesStopped ==
    [][\A j \in Jobs :
          /\ (stop_indexer_process(j) /\ hist[j].begun /\ j \in active /\ j \in DOMAIN db)
                => /\ db' = [db EXCEPT ![j].status = STOPPED,
                                       ![j].completed_at = local_now(now),
                                       ![j].error_message = NULL]
                   /\ active' = active
                   /\ unit' = unit
          /\ (j \in DOMAIN db /\ ~Reads(db, j, STOPPED) /\ Reads(db', j, STOPPED))
                => stop_indexer_process(j)
          /\ (CheckStopped(j) /\ is_process_stopped(db, j))
                => db' = db /\ unit'[j].pc = "done"]_vars

\* C2, the case: the row reads STOPPED while the unit is inside its recipe
C2_StoppedWhileExecuting ==
    \E j \in Jobs : Executing(j) /\ j \in active /\ Reads(db, j, STOPPED)
                    /\ unit[j].pc \in LoopPcs

\* C3: a stop request for a job whose record reads RUNNING and whose unit has
\* not begun is answered True and leaves the status STOPPED and no handle for
\* the job; a registered handle is cancelled; and ever after the unit has not
\* begun, nothing of the job was denormalized or written to the index, and the
\* status, as long as the row is kept, is STOPPED.
C3_PendingStop ==
    /\ [][\A j \in Jobs :
            (stop_indexer_process(j) /\ ~hist[j].begun /\ Reads(db, j, RUNNING))
                => /\ hist'[j].ret = "True"
                   /\ Reads(db', j, STOPPED)
                   /\ j \notin active'
                   /\ j \in active => unit'[j].pc = "cancelled"]_vars
    /\ [](\A j \in Jobs :
            hist[j].stopPre
                => /\ ~hist[j].begun /\ ~Executing(j)
                   /\ hist[j].denorms = 0 /\ hist[j].writes = 0 /\ hist[j].bulks = 0
                   /\ unit[j].indexed = 0
                   /\ j \notin active
                   /\ j \in DOMAIN db => db[j].status = STOPPED)

\* C3, the case: a queued unit was cancelled by a stop request
C3_Cancelled ==
    \E j \in Jobs : hist[j].stopPre /\ unit[j].pc = "cancelled" /\ Reads(db, j, STOPPED)
                    /\ hist[j].ret = "True"

\* The row create_process commits
FreshRow(d, j) ==
    /\ Len(get_process(d, j)) = 1
    /\ d[j].status = RUNNING
    /\ d[j].completed_at = NULLT
    /\ d[j].progress = NoProgress
    /\ d[j].error_message = NULL

\* C4: when start_indexer_endpoint submits the work unit of job j the record
\* of j is committed and readable, with status RUNNING and completed_at,
\* progress and error_message null, and so it stays while the unit is queued;
\* no unit of j, no handle, no log buffer and no executor step exists for a
\* job whose record was not committed.
C4_RecordBeforeWork ==
    \A j \in Jobs :
        /\ (ep.at = "created" /\ ep.id = j)
              => FreshRow(db, j) /\ unit[j].pc = "idle" /\ j \notin active
                   /\ j \notin DOMAIN logs
        /\ unit[j].pc = "queued" => FreshRow(db, j)
        /\ (unit[j].pc # "idle" \/ j \in active \/ j \in DOMAIN logs \/ hist[j].begun)
              => hist[j].created
        /\ hist[j].created => j < next_id

\* C4, the case: the unit has just been submitted and the record is readable
C4_Submitted ==
    \E j \in Jobs : ep.at = "submitted" /\ ep.id = j /\ unit[j].pc = "queued"
                    /\ FreshRow(db, j)

\* C5: stop_indexer_process for a job with no handle in the active table: a
\* record that reads RUNNING becomes STOPPED with completed_at set and the
\* answer is True; with no record, or one that reads COMPLETED, FAILED or
\* STOPPED, the answer is False and the table and the handles stay as they are.
C5_StopWithoutHandle ==
    [][\A j \in Jobs :
          (stop_indexer_process(j) /\ j \notin active)
              => IF Reads(db, j, RUNNING)
                 THEN /\ db' = [db EXCEPT ![j].status = STOPPED, ![j].completed_at = now]
                      /\ hist'[j].ret = "True"
                      /\ active' = active
                 ELSE /\ db' = db
                      /\ hist'[j].ret = "False"
                      /\ active' = active]_vars

\* C5, the case: after a restart the record still read RUNNING and a stop
\* request marked it STOPPED
C5_ForceMarked ==
    \E j \in Jobs : restarts > 0 /\ unit[j].pc = "lost" /\ hist[j].ret = "True"
                    /\ Reads(db, j, STOPPED) /\ db[j].completed_at = now

\* C6: once stop_indexer_process has written STOPPED for a job whose unit is
\* inside its loop, the unit finishes at most the item or page it had begun
\* (the progress write of that item or page included), starts no other, and
\* ends with no further write of status or progress.
C6_ExitsAtNextCheck ==
    [][\A j \in Jobs :
          (hist[j].stopLoop /\ j \in DOMAIN db /\ j \in DOMAIN db')
              => /\ db'[j].status = db[j].status
                 /\ db'[j].progress # db[j].progress => unit[j].pc \in {"iprog", "bprog"}
                 /\ (unit[j].pc \in {"loop", "bloop"} /\ unit'[j].pc # unit[j].pc)
                        => unit'[j].pc \in {"done", "lost"}]_vars

\* C6, the case found: the stop request came during the last item, and the
\* unit went on to write COMPLETED
C6_CompletedAfterStop ==
    \E j \in Jobs : hist[j].stopLoop /\ Batch(unit[j].type) /\ unit[j].pc = "final"
                    /\ Reads(db, j, COMPLETED) /\ unit[j].i = unit[j].total

\* C7: under fair scheduling of the pool and with no restart, every job that
\* was created and submitted to the pool reaches status COMPLETED, FAILED or STOPPED.
C7_ReachesTerminal ==
    \A j \in Jobs : (unit[j].pc = "queued") ~> (get_process_status(db, j) \in Terminal)

\* C7, the case: a full reindex ran to its end and its record reads COMPLETED
C7_BulkCompleted ==
    \E j \in Jobs : unit[j].type = BULK /\ unit[j].pc = "done" /\ Reads(db, j, COMPLETED)
                    /\ hist[j].bulks > 0

\* Nothing of job j was listed, denormalized or written to the index
NothingProcessed(j) ==
    /\ hist[j].listings = 0
    /\ hist[j].denorms = 0
    /\ hist[j].writes = 0
    /\ hist[j].bulks = 0
    /\ hist[j].requests = 0
    /\ hist[j].singles = 0

\* C8: a unit to which the search engine is unavailable when it starts (it
\* gets no client, or the client it gets is one whose server does not answer)
\* takes the job from RUNNING to FAILED with a non-empty error message, and
\* lists, denormalizes and writes nothing.
C8_EsDownFails ==
    /\ [][\A j \in Jobs :
            (hist[j].esDown /\ unit[j].pc = "status" /\ unit'[j].pc = "unreg")
                => /\ Reads(db, j, RUNNING)
                   /\ Reads(db', j, FAILED)
                   /\ db'[j].error_message # NULL]_vars
    /\ [](\A j \in Jobs : hist[j].esDown => NothingProcessed(j))

\* C8, the case found: the server stopped answering after the request that
\* started a batch job was accepted; the unit got the cached client, listed its
\* candidates, tried every one of them, wrote none, and the job reads
\* COMPLETED with no error message
C8_CompletedWhileDown ==
    \E j \in Jobs : /\ hist[j].esDown /\ ~es_up /\ ~hist[j].stopReq
                    /\ Batch(unit[j].type) /\ unit[j].pc = "done"
                    /\ hist[j].listings = 1 /\ unit[j].total = MaxItems
                    /\ hist[j].denorms = MaxItems /\ hist[j].singles = MaxItems
                    /\ hist[j].writes = 0 /\ unit[j].failed = MaxItems
                    /\ Reads(db, j, COMPLETED) /\ db[j].error_message = NULL

\* C9: a batch job whose candidate listing found the data source unreachable
\* ends FAILED with an error message, not COMPLETED.
C9_SourceDownFails ==
    \A j \in Jobs :
        (hist[j].srcDown /\ unit[j].pc = "done" /\ ~hist[j].stopReq /\ j \in DOMAIN db)
            => Reads(db, j, FAILED) /\ db[j].error_message # NULL

\* C9, the case found: the listing failed and the job reads COMPLETED with no candidate
C9_CompletedEmpty ==
    \E j \in Jobs : hist[j].srcDown /\ unit[j].pc = "done" /\ ~hist[j].stopReq
                    /\ Reads(db, j, COMPLETED) /\ db[j].progress.total = 0
                    /\ db[j].error_message = NULL

\* C10: with no stop request, a unit of the incremental-by-source or the
\* resync-since recipe ends with every candidate attempted, the status
\* COMPLETED and a failed tally equal to the number of candidates that raised,
\* whichever candidates raise; a full reindex ends COMPLETED as well, a failed
\* denormalization or bulk submission only adds to its failed tally, and
\* unless a page read fails every id of every page was attempted.
C10_FailureIsolation ==
    \A j \in Jobs :
        (unit[j].pc = "done" /\ ~hist[j].stopReq /\ j \in DOMAIN db)
            => /\ Batch(unit[j].type)
                    => /\ db[j].status = COMPLETED
                       /\ unit[j].i = unit[j].total
                       /\ hist[j].denorms = unit[j].total
                       /\ db[j].progress.total = unit[j].total
                       /\ db[j].progress.failed = hist[j].raised
                       /\ db[j].progress.indexed = hist[j].writes
               /\ unit[j].type = BULK
                    => /\ db[j].status = COMPLETED
                       /\ db[j].progress.indexed <= hist[j].writes
                       /\ db[j].progress.failed >= hist[j].raised
                       /\ db[j].progress.failed + db[j].progress.indexed <= hist[j].denorms
                       /\ (~hist[j].srcDown /\ ~hist[j].pageDown)
                              => hist[j].denorms = visible

\* C10, the case: every candidate of a resync raised and the job reads COMPLETED
C10_AllRaised ==
    \E j \in Jobs : unit[j].type = SYNC /\ unit[j].pc = "done" /\ ~hist[j].stopReq
                    /\ unit[j].total = MaxItems /\ hist[j].raised = MaxItems
                    /\ Reads(db, j, COMPLETED) /\ db[j].progress.failed = MaxItems

\* C11: a single-item job whose publication has no row ends FAILED with the
\* 'not found' message and writes no document; in the batch recipes a
\* candidate without row adds to neither tally (indexed counts the documents
\* written, failed the candidates that raised), and the loop goes on to the
\* next candidate until all were attempted.
C11_NotFound ==
    \A j \in Jobs :
        /\ (unit[j].type = LICITACION /\ hist[j].absent > 0)
              => /\ hist[j].writes = 0
                 /\ unit[j].pc \in {"status", "unreg", "done", "lost"}
                 /\ unit[j].st = FAILED /\ unit[j].msg = "not found"
                 /\ (unit[j].pc \in {"unreg", "done"} /\ ~hist[j].stopReq /\ j \in DOMAIN db)
                        => Reads(db, j, FAILED) /\ db[j].error_message = "not found"
        /\ Batch(unit[j].type)
              => /\ unit[j].indexed = hist[j].writes
                 /\ unit[j].failed = hist[j].raised
                 /\ unit[j].i + hist[j].late = hist[j].writes + hist[j].raised + hist[j].absent
                 /\ unit[j].i = hist[j].denorms
                 /\ (unit[j].pc = "done" /\ ~hist[j].stopReq /\ j \in DOMAIN db)
                        => unit[j].i = unit[j].total /\ Reads(db, j, COMPLETED)

\* C11, the case: the first candidate of a batch job had no row and the second was indexed
C11_SkippedThenIndexed ==
    \E j \in Jobs : Batch(unit[j].type) /\ unit[j].pc = "done" /\ unit[j].total = 2
                    /\ hist[j].absent = 1 /\ unit[j].indexed = 1 /\ unit[j].failed = 0
                    /\ Reads(db, j, COMPLETED)

\* C12: a full reindex that runs to its end over N visible ids, with no stop
\* request and every page read answered, has processed ceil(N / BATCH_SIZE)
\* pages in its indexing pass, has sent the search engine one bulk write for
\* each page that yielded a document (its one streaming_bulk call sent one
\* bulk request) and has made no single-document index write.
C12_PagesAndBulkCalls ==
    \A j \in Jobs :
        unit[j].type = BULK
            => /\ hist[j].singles = 0
               /\ (unit[j].pc = "done" /\ ~hist[j].stopReq /\ ~hist[j].pageDown
                      /\ j \in DOMAIN db)
                    => /\ unit[j].offset >= visible
                       /\ unit[j].offset < visible + BATCH_SIZE
                       /\ unit[j].offset % BATCH_SIZE = 0
                       /\ hist[j].denorms = visible
                       /\ hist[j].bulks = hist[j].docPages
                       /\ hist[j].requests = hist[j].docPages

\* C12, the case found: 2500 ids, every one denormalized and written: three
\* pages, three streaming_bulk calls, and five bulk requests (two for each
\* page of 1000 documents, one for the 500 of the last)
C12_FiveRequests ==
    \E j \in Jobs : /\ visible = 2 * BATCH_SIZE + CHUNK_SIZE /\ unit[j].type = BULK
                    /\ unit[j].pc = "done" /\ ~hist[j].stopReq /\ ~hist[j].pageDown
                    /\ unit[j].offset = 3 * BATCH_SIZE /\ hist[j].docPages = 3
                    /\ hist[j].bulks = 3 /\ hist[j].requests = 5
                    /\ hist[j].writes = visible /\ hist[j].singles = 0
                    /\ Reads(db, j, COMPLETED) /\ db[j].progress.indexed = visible

\* C13: the first step of a Reaper sweep deletes exactly the records that are
\* COMPLETED, FAILED or STOPPED and were completed more than
\* PROCESS_RETENTION_DAYS days ago, and leaves every other record as it is;
\* when the sweep ends, no record it deleted has a log buffer.
C13_ReaperDeletesOld ==
    [][/\ (reaper.at = "idle" /\ reaper'.at = "buffers")
            => /\ DOMAIN db' = DOMAIN db \
                    {j \in DOMAIN db : /\ db[j].status \in Terminal
                                       /\ hist[j].ended # NULLT
                                       /\ now - hist[j].ended > Retention}
               /\ \A j \in DOMAIN db' : db'[j] = db[j]
               /\ reaper'.deleted = DOMAIN db \ DOMAIN db'
       /\ (reaper.at = "buffers" /\ reaper'.at = "idle" /\ restarts' = restarts)
            => \A j \in reaper.deleted : j \notin DOMAIN logs' /\ j \notin DOMAIN db']_vars

\* C13, the case: under an offset west of UTC the sweep in progress has deleted
\* a record that was completed less than the retention ago
C13_DeletedInsideWindow ==
    \E j \in Jobs :
        /\ reaper.at = "buffers" /\ j \in reaper.deleted /\ j \notin DOMAIN db
        /\ tz < 0
        /\ hist[j].ended # NULLT /\ now - hist[j].ended < Retention

\* C14: after n appends to a job's buffer the buffer holds at most
\* MAX_LOG_BUFFER_SIZE entries, and get_process_logs without since returns
\* exactly the last min(n, MAX_LOG_BUFFER_SIZE) entries appended, oldest first.
\* (Under SpecLog the k-th line, counted from 0, is stamped k and n = now.)
C14_BufferKeepsLast ==
    \A j \in DOMAIN logs :
        LET n == now
            kept == Min(n, MAX_LOG_BUFFER_SIZE)
            got == get_process_logs(logs, j, NoSince)
        IN  /\ Len(logs[j]) <= MAX_LOG_BUFFER_SIZE
            /\ Len(got) = kept
            /\ \A k \in 1..kept : got[k] = LogEntry(n - kept + k - 1, "INFO", "line")

\* MaxAppends lines were written, more than the buffer holds
C14_Evicted ==
    /\ MaxAppends > MAX_LOG_BUFFER_SIZE
    /\ now = MaxAppends
    /\ \E j \in DOMAIN logs :
            /\ Len(logs[j]) = MAX_LOG_BUFFER_SIZE
            /\ logs[j][1].timestamp = MaxAppends - MAX_LOG_BUFFER_SIZE

\* C15: get_process_logs with a since that parses returns exactly the
\* buffered entries stamped strictly later than since, in buffer order; with a
\* since that does not parse it returns the whole buffer; for a job without
\* buffer it returns the empty list.
C15_SinceFilter ==
    \A j \in Jobs :
        /\ \A t \in 0..MaxLogs : \A since \in {Naive(t), Aware(t)} :
                j \in DOMAIN logs =>
                    get_process_logs(logs, j, since)
                        = SelectSeq(logs[j], LAMBDA e : e.timestamp > t)
        /\ j \in DOMAIN logs => get_process_logs(logs, j, Unparsable) = logs[j]
        /\ j \notin DOMAIN logs =>
                \A since \in {NoSince, Unparsable, Naive(0), Aware(0)} :
                    get_process_logs(logs, j, since) = << >>

\* A since with an offset, later than every buffered entry, gets the whole
\* buffer back
C15_AwareSinceReturnsAll ==
    \E j \in DOMAIN logs :
        /\ Len(logs[j]) > 0
        /\ \A k \in 1..Len(logs[j]) : logs[j][k].timestamp < MaxLogs
        /\ get_process_logs(logs, j, Aware(MaxLogs)) = logs[j]
        /\ get_process_logs(logs, j, Naive(MaxLogs)) = << >>

\* A thread is inside the with block of op, on the buffer of job id
Inside(t, op) == caller[t].pc = "locked" /\ caller[t].op = op

\* C16 as stated: creation and removal of buffers exclude each other, and an
\* append for one job does not wait for an append for another job: a thread
\* arriving at the lock for an append can take it while another thread is
\* appending to a different job's buffer.
C16_AppendsDoNotWait ==
    \A a \in Threads : \A b \in Threads \ {a} :
        /\ ~(/\ caller[a].pc = "locked" /\ caller[a].op # "emit"
              /\ caller[b].pc = "locked" /\ caller[b].op # "emit")
        /\ (/\ caller[a].pc = "acquire" /\ caller[a].op = "emit"
            /\ Inside(b, "emit")
            /\ caller[a].id # caller[b].id)
                => CanAcquire(a)

\* C16 as the code has it: creation, removal and append all run under the one
\* lock, so no two threads are inside any of them at the same time, whatever
\* the jobs; a thread inside one of them is the holder of the lock.
C16_OneLockForAll ==
    /\ \A a \in Threads : \A b \in Threads \ {a} :
            ~(caller[a].pc = "locked" /\ caller[b].pc = "locked")
    /\ \A t \in Threads : caller[t].pc = "locked" => buffer_lock = t

\* An append for one job waits while an append for another job is under way
C16_AppendWaits ==
    \E a \in Threads : \E b \in Threads \ {a} :
        /\ caller[a].pc = "acquire" /\ caller[a].op = "emit"
        /\ Inside(b, "emit")
        /\ caller[a].id # caller[b].id
        /\ ~CanAcquire(a)

\* C17: in every reachable state and for every row of the job table,
\* completed_at is set exactly when the status is COMPLETED, FAILED or STOPPED;
\* a RUNNING row has completed_at null.
C17_CompletedAtIffTerminal ==
    \A j \in DOMAIN db :
        /\ (db[j].completed_at # NULLT) <=> (db[j].status \in Terminal)
        /\ db[j].status = RUNNING => db[j].completed_at = NULLT

\* An executor has written its final status and the row carries the instant
C17_Stamped ==
    \E j \in DOMAIN db :
        /\ unit[j].pc = "done"
        /\ db[j].status \in {COMPLETED, FAILED}
        /\ db[j].completed_at = local_now(now)

\* C18: stop_indexer_process(j) changes nothing in the job table but the
\* status and the completed_at of row j: progress, error message, parameters,
\* type and owner of row j stay as they were, no row appears or disappears,
\* and every other row stays as it was.
C18_StopFrame ==
    [][\A j \in Jobs :
          stop_indexer_process(j)
              => /\ DOMAIN db' = DOMAIN db
                 /\ \A k \in DOMAIN db \ {j} : db'[k] = db[k]
                 /\ j \in DOMAIN db
                        => /\ db'[j].progress = db[j].progress
                           /\ db'[j].error_message = db[j].error_message
                           /\ db'[j].params = db[j].params
                           /\ db'[j].type = db[j].type
                           /\ db'[j].user_id = db[j].user_id]_vars

\* The executor recorded a failure with its message and, before it removed
\* its handle, a stop request left the row STOPPED without the message
C18_MessageLost ==
    \E j \in DOMAIN db :
        /\ unit[j].pc = "unreg"
        /\ unit[j].st = FAILED
        /\ unit[j].msg # NULL
        /\ hist[j].ret = "True"
        /\ db[j].status = STOPPED
        /\ db[j].error_message = NULL

\* The clauses of a list that are the term for field with this value
TermsOn(list, field) ==
    {k \in 1..Len(list) : list[k].op = "term" /\ list[k].field = field}

\* C19: for every parameter map build_es_query returns a bool query whose
\* filter list holds the clause term visible = true exactly once; match_all
\* is never returned; for the empty map the bool query holds the visibility
\* filter and nothing else.
C19_VisibleAlways ==
    query # NoQuery =>
        /\ DOMAIN query = {"bool"}
        /\ "filter" \in DOMAIN query.bool
        /\ Cardinality(TermsOn(query.bool["filter"], "visible")) = 1
        /\ \A k \in TermsOn(query.bool["filter"], "visible") :
                query.bool["filter"][k].value = TRUE
        /\ DOMAIN request = {}
                => /\ DOMAIN query.bool = {"filter"}
                   /\ Len(query.bool["filter"]) = 1

\* The query for the request without any parameter
C19_EmptyRequest ==
    /\ DOMAIN request = {}
    /\ query # NoQuery
    /\ DOMAIN query = {"bool"}
    /\ DOMAIN query.bool = {"filter"}
    /\ Len(query.bool["filter"]) = 1
    /\ query.bool["filter"][1].field = "visible"

\* The value of a categorical parameter asks for no filter: not given, empty
\* or the sentinel 'all'
Ignored(p, k) == ~Given(p, k) \/ p[k] = "all"

\* The country filter of the query built: nothing for an ignored value, the
\* one term pais_id = int(value) for an integer, the one term
\* pais_nombre = value for any other value
PaisFilter(p, list) ==
    /\ Ignored(p, "pais")
            => TermsOn(list, "pais_id") = {} /\ TermsOn(list, "pais_nombre") = {}
    /\ (~Ignored(p, "pais") /\ int_parses(p["pais"]))
            => /\ TermsOn(list, "pais_nombre") = {}
               /\ Cardinality(TermsOn(list, "pais_id")) = 1
               /\ \A k \in TermsOn(list, "pais_id") :
                    list[k].value = (IF p["pais"] = "-3" THEN -3 ELSE 7)
    /\ (~Ignored(p, "pais") /\ ~int_parses(p["pais"]))
            => /\ TermsOn(list, "pais_id") = {}
               /\ Cardinality(TermsOn(list, "pais_nombre")) = 1
               /\ \A k \in TermsOn(list, "pais_nombre") : list[k].value = p["pais"]

\* The rubro filter of the query built, for an ignored value and for an integer
RubroFilterById(p, list) ==
    /\ Ignored(p, "rubro") => TermsOn(list, "tag_ids") = {}
    /\ (~Ignored(p, "rubro") /\ int_parses(p["rubro"]))
            => /\ Cardinality(TermsOn(list, "tag_ids")) = 1
               /\ \A k \in TermsOn(list, "tag_ids") :
                    list[k].value = (IF p["rubro"] = "-3" THEN -3 ELSE 7)

\* The fields the filter clauses of build_es_query are on
FilterFields == {"pais_id", "pais_nombre", "tag_ids", "apertura", "vigente", "visible"}

\* C20 as stated: for pais and for rubro the sentinel 'all' or an absent value
\* adds no clause, a value that parses as an integer adds the term clause on
\* the id field, and any other value adds a term clause on the display-name
\* field of the category (for rubro: a term clause on a field that is none of
\* the fields of the other filters).
C20_CategoricalFilters ==
    query # NoQuery =>
        /\ PaisFilter(request, query.bool["filter"])
        /\ RubroFilterById(request, query.bool["filter"])
        /\ (~Ignored(request, "rubro") /\ ~int_parses(request["rubro"]))
                => \E k \in 1..Len(query.bool["filter"]) :
                        /\ query.bool["filter"][k].op = "term"
                        /\ query.bool["filter"][k].field \notin FilterFields \ {"tag_ids"}

\* C20 as the code has it: pais as stated; rubro is matched by id only, a rubro
\* value that is no integer adds no clause at all.
C20_PaisByIdOrName_RubroById ==
    query # NoQuery =>
        /\ PaisFilter(request, query.bool["filter"])
        /\ RubroFilterById(request, query.bool["filter"])
        /\ (~Ignored(request, "rubro") /\ ~int_parses(request["rubro"]))
                => /\ TermsOn(query.bool["filter"], "tag_ids") = {}
                   /\ \A k \in 1..Len(query.bool["filter"]) :
                        query.bool["filter"][k].field \in FilterFields

\* A query built for pais = 'Chile' and rubro = 'Chile': matched by country
\* name, no clause for the rubro
C20_NamesGiven ==
    /\ query # NoQuery
    /\ Given(request, "pais") /\ request["pais"] = "Chile"
    /\ Given(request, "rubro") /\ request["rubro"] = "Chile"
    /\ Cardinality(TermsOn(query.bool["filter"], "pais_nombre")) = 1
    /\ TermsOn(query.bool["filter"], "tag_ids") = {}

\* C21: the document built for a row that exists has no key whose value is
\* None, at the top level or inside the nested tipo_licit_ids.
C21_NoNoneInDocument ==
    doc # NoDoc =>
        /\ \A k \in DOMAIN doc : doc[k] # PyNone
        /\ "tipo_licit_ids" \in DOMAIN doc
                => \A k \in DOMAIN doc["tipo_licit_ids"] : doc["tipo_licit_ids"][k] # PyNone

\* The publication has no type row: the document carries tipo_licit_ids with
\* None under each of its keys, while the unset top-level columns are left out
C21_NestedNone ==
    /\ doc # NoDoc
    /\ pub["link"] = PyNone /\ "link" \notin DOMAIN doc
    /\ \A k \in DOMAIN doc : doc[k] # PyNone
    /\ \A k \in {"esAR", "ptBR", "enUS"} : doc["tipo_licit_ids"][k] = PyNone

\* C22: for every input that is a plain number or a text of the form
\* $D.DDD,DD, zero amounts included, parsing the parsed amount again gives the
\* parsed amount.
C22_ParseIdempotent ==
    (pub # NoRow /\ pub["monto"] \in PlainNumbers \cup {PyStr(m) : m \in MoneyTexts})
        => parse_monto(parse_monto(pub["monto"])) = parse_monto(pub["monto"])

\* The amount '$0,00' is parsed to 0.0 and written to the document; parsed
\* again, 0.0 gives None
C22_ZeroAmount ==
    /\ doc # NoDoc
    /\ pub["monto"] = PyStr(<<"$", "0", ",", "0", "0">>)
    /\ doc["monto"] = PyFloat(0)
    /\ parse_monto(doc["monto"]) = PyNone

\* C23: the orphan sweep of the Reaper removes no log buffer of a job whose
\* row is in the job table, also when the job was created and began to log
\* after the sweep read the ids of the table.
C23_SweepKeepsLiveBuffers ==
    [][(reaper.at = "buffers" /\ reaper'.at = "idle" /\ restarts' = restarts)
            => \A j \in DOMAIN logs \cap DOMAIN db : j \in DOMAIN logs']_vars

\* A job that is executing, with its row in the table, has lost its buffer
\* to the sweep: the process was never restarted and the unit is past the
\* creation of its handler
C23_LiveBufferRemoved ==
    \E j \in DOMAIN db :
        /\ restarts = 0
        /\ hist[j].begun
        /\ Executing(j) /\ unit[j].pc # "handler"
        /\ db[j].status = RUNNING
        /\ reaper.at = "idle"
        /\ j \notin DOMAIN logs
        /\ j \notin reaper.existing

\* C24: when the status of a job is COMPLETED, FAILED or STOPPED and its work
\* unit is neither queued nor executing, the handle table has no entry for
\* the job.
C24_NoHandleAfterEnd ==
    \A j \in DOMAIN db :
        (db[j].status \in Terminal /\ unit[j].pc # "queued" /\ ~Executing(j))
            => j \notin active

\* A unit that saw the stop at a check of its loop has returned, the row
\* reads STOPPED, and the handle of the job is still in the table
C24_HandleLeftAfterStop ==
    \E j \in DOMAIN db :
        /\ hist[j].stopLoop
        /\ unit[j].pc = "done"
        /\ db[j].status = STOPPED
        /\ ep.at = "idle"
        /\ j \in active

\* C25: after stop_indexer_process(j) has returned True, the row of j reads
\* STOPPED whenever its work unit has finished or was cancelled: no step of
\* the executor puts COMPLETED or FAILED in the place of STOPPED.
C25_StoppedStays ==
    \A j \in DOMAIN db :
        (hist[j].stopTrue /\ unit[j].pc \in {"done", "cancelled"})
            => db[j].status = STOPPED

\* The stop was answered True while the unit was past its last check; the
\* unit has finished and the row reads what the unit wrote last
C25_StopLost ==
    \E j \in DOMAIN db :
        /\ hist[j].stopTrue
        /\ hist[j].ret = "True"
        /\ hist[j].begun
        /\ unit[j].pc = "done"
        /\ db[j].status = unit[j].st
        /\ unit[j].st \in {COMPLETED, FAILED}

\* C26: whenever the row of a job reads COMPLETED, its progress is the final
\* snapshot: message 'Completed' and current = total.
C26_CompletedHasFinalProgress ==
    \A j \in DOMAIN db :
        db[j].status = COMPLETED
            => /\ db[j].progress.message = "Completed"
               /\ db[j].progress.current = db[j].progress.total

\* The unit has written COMPLETED and not yet its last progress: a reader
\* gets COMPLETED with the snapshot of the loop
C26_CompletedBeforeProgress ==
    \E j \in DOMAIN db :
        /\ ~hist[j].stopReq
        /\ unit[j].pc \in {"unreg", "final"}
        /\ db[j].status = COMPLETED
        /\ db[j].progress.message # "Completed"

\* C27: every progress snapshot written satisfies 0 <= current <= total; in a
\* full reindex over a number of ids that is no multiple of the page size, the
\* current written after the last page is not above the total counted.
C27_CurrentWithinTotal ==
    \A j \in DOMAIN db :
        db[j].progress # NoProgress
            => 0 <= db[j].progress.current /\ db[j].progress.current <= db[j].progress.total

\* A full reindex over one page and one row, every read of the source
\* answered: after the second page the snapshot reads 2000 of 1001
C27_CurrentAboveTotal ==
    \E j \in DOMAIN db :
        /\ visible = BATCH_SIZE + 1
        /\ db[j].type = BULK
        /\ ~hist[j].srcDown /\ ~hist[j].pageDown
        /\ db[j].progress.total = BATCH_SIZE + 1
        /\ db[j].progress.current = 2 * BATCH_SIZE

\* C28: in every batch recipe a candidate adds to at most one of the two
\* tallies, so indexed + failed never exceeds the number of candidates visited
\* (the ids read so far, in a full reindex), also when the periodic progress
\* write raises after a document was written.
C28_OneTallyPerCandidate ==
    \A j \in Jobs :
        /\ Batch(unit[j].type) => unit[j].indexed + unit[j].failed <= unit[j].i
        /\ unit[j].type = BULK => unit[j].indexed + unit[j].failed <= hist[j].denorms
        /\ hist[j].both = 0

\* The tenth candidate of an incremental-by-source job was written and its
\* progress write raised: ten candidates, eleven tallied
C28_IndexedAndFailed ==
    \E j \in Jobs :
        /\ unit[j].type = SCRAPER /\ unit[j].i = SCRAPER_PROGRESS_EVERY
        /\ hist[j].both = 1
        /\ unit[j].indexed = SCRAPER_PROGRESS_EVERY /\ unit[j].failed = 1

\* C29: in every reachable state a job record carries an error message if and
\* only if its status is FAILED.
C29_MessageIffFailed ==
    \A j \in DOMAIN db : (db[j].error_message # NULL) <=> (db[j].status = FAILED)

\* The status write of a job was 'failed' with its message; a stop() that found
\* the handle still registered then wrote 'stopped' and took the message off
C29_StoppedAfterFailed ==
    \E j \in DOMAIN db :
        /\ unit[j].pc = "done" /\ unit[j].st = FAILED /\ unit[j].msg # NULL
        /\ db[j].status = STOPPED /\ db[j].error_message = NULL
        /\ hist[j].stopTrue

\* C30: a client that polls the logs of a job, each time with the
\* last_timestamp of its previous answer, has after every poll received every
\* record of the buffer exactly once and in order (nothing is evicted or
\* removed here), also when consecutive records carry the same timestamp.
C30_EachRecordOnce ==
    [][\A j \in Jobs : poller'[j] # poller[j] /\ j \in DOMAIN logs'
            => poller'[j].seen = logs'[j]]_vars

\* Two records of the same instant, the second written after a poll that
\* delivered the first: the next poll delivers nothing and the client has one
\* record of two
C30_RecordSkipped ==
    \E j \in DOMAIN logs :
        /\ Len(logs[j]) = 2 /\ logs[j][1].timestamp = logs[j][2].timestamp
        /\ poller[j].polls = 2 /\ Len(poller[j].seen) = 1
        /\ poller[j].since = Naive(logs[j][2].timestamp)

====
